---- MODULE Spec2Model ----
(***************************************************************************)
(* Grade reconciliation of the cornellGrading package: the roster loaded   *)
(* by getCourse, the Qualtrics self-grading import with its fixed late     *)
(* penalty, the linear late penalty of the New Quiz self-assessment, the   *)
(* MATLAB grader import, identity resolution and the bulk grade upload;    *)
(* the Qualtrics client (surveys, mailing lists, exports), the setup of the *)
(* self-grading survey and quiz, and the assignment choosers.              *)
(*                                                                         *)
(* Times are integer seconds.  Scores are exact rationals <<n, d>> in      *)
(* lowest terms with d > 0, and <<0, 0>> is the float NaN.  Strings that   *)
(* the code takes apart (netids, emails, formatted grades) are sequences   *)
(* of one-character strings.  An optional value (None in the code) is the  *)
(* empty sequence, a present value v is <<v>>.                             *)
(***************************************************************************)
EXTENDS Integers, Sequences, FiniteSets, TLC

VARIABLES
    users,        \* Canvas: the users of the course, as get_users returns them
    assignments,  \* Canvas: names of the assignments of the course
    hw,           \* Canvas: the homework assignment (due_at, points_possible)
    hwsubs,       \* Canvas: hw.get_submissions()
    sgsubs,       \* Canvas: submissions of the "HW Self-Assessment" quiz
    survey,       \* Qualtrics: the exported self-grading survey (the csv)
    grader,       \* the MATLAB grader csv report
    loaded,       \* getCourse has run: self.ids and self.netids exist
    ids,          \* self.ids
    netids,       \* self.netids
    ret,          \* outcome of the most recent call: operation, arguments,
                  \* exception raised, value returned
    bulk,         \* submissions_bulk_update requests the most recent call sent
    printed,      \* "Could not match netids" lists the most recent call printed
    progress,     \* Canvas: workflow_state of the Progress of the bulk update
                  \* sent last, "none" before any
    other,        \* Canvas and Qualtrics: a second homework, its submissions
                  \* and its survey
    files,        \* the temporary directory: survey exports by path
    runs,         \* calls under way, step by step: position and local variables
    qualtrics     \* Qualtrics: the surveys, mailing lists and export jobs of the
                  \* account, and the lists the client object has stored

vars == <<users, assignments, hw, hwsubs, sgsubs, survey, grader,
          loaded, ids, netids, ret, bulk, printed, progress, other, files, runs,
          qualtrics>>

world == <<users, assignments, hw, hwsubs, sgsubs, survey, grader>>

\* what the calls that run in one step leave alone
aside == <<other, files, runs, qualtrics>>

----------------------------------------------------------------------------
(* Bounds of the model *)

MaxRows == 2        \* rows of a survey export, entries of an upload

(* Program constants *)

Day == 86400        \* seconds per day
Grace == 300        \* the 5 minute grace period, 5 * 60.0
OrdinalMax == 3     \* top of the 0..3 scale of a survey question

----------------------------------------------------------------------------
(* Float arithmetic, exact *)

Abs(x) == IF x < 0 THEN -x ELSE x

RECURSIVE Gcd(_, _)
Gcd(a, b) == IF b = 0 THEN a ELSE Gcd(b, a % b)

NaN == <<0, 0>>

IsNaN(r) == r[2] = 0

\* n / d in lowest terms; 0 / 0 is nan as in numpy
Rat(n, d) ==
    IF d = 0 THEN NaN
    ELSE LET g == Gcd(Abs(n), Abs(d))
             s == IF d < 0 THEN -1 ELSE 1
         IN  <<(s * n) \div g, (s * d) \div g>>

Num(n) == <<n, 1>>

RAdd(a, b) ==
    IF IsNaN(a) \/ IsNaN(b) THEN NaN
    ELSE Rat(a[1] * b[2] + b[1] * a[2], a[2] * b[2])

RSub(a, b) ==
    IF IsNaN(a) \/ IsNaN(b) THEN NaN
    ELSE Rat(a[1] * b[2] - b[1] * a[2], a[2] * b[2])

RMul(a, b) ==
    IF IsNaN(a) \/ IsNaN(b) THEN NaN
    ELSE Rat(a[1] * b[1], a[2] * b[2])

RDiv(a, b) ==
    IF IsNaN(a) \/ IsNaN(b) THEN NaN
    ELSE Rat(a[1] * b[2], a[2] * b[1])

\* a < b; every comparison with nan is false
RLt(a, b) == ~IsNaN(a) /\ ~IsNaN(b) /\ a[1] * b[2] < b[1] * a[2]

RLe(a, b) == ~IsNaN(a) /\ ~IsNaN(b) /\ a[1] * b[2] <= b[1] * a[2]

RECURSIVE SumSeq(_)
SumSeq(s) == IF s = <<>> THEN 0 ELSE Head(s) + SumSeq(Tail(s))

----------------------------------------------------------------------------
(* Strings *)

\* str.lower() on the alphabet of the model
LowerChar(c) ==
    CASE c = "A" -> "a"
      [] c = "B" -> "b"
      [] c = "C" -> "c"
      [] OTHER -> c

\* Lower that leaves the case as it is
LowerKeepsCase(s) == s

Lower(s) == [k \in 1..Len(s) |-> LowerChar(s[k])]

\* s.split("@")[0]: the part before the first "@", all of s when it has none
RECURSIVE SplitAt(_)
SplitAt(s) ==
    IF s = <<>> \/ Head(s) = "@" THEN <<>>
    ELSE <<Head(s)>> \o SplitAt(Tail(s))

Digit(k) == <<"0", "1", "2", "3", "4", "5", "6", "7", "8", "9">>[k + 1]

\* "%d" % n for n >= 0
RECURSIVE DecStr(_)
DecStr(n) ==
    IF n < 10 THEN <<Digit(n)>>
    ELSE DecStr(n \div 10) \o <<Digit(n % 10)>>

\* the first k decimals of r / d (0 <= r < d) and the remainder left, by long
\* division: <<digits as a number, remainder>>
RECURSIVE Decimals(_, _, _)
Decimals(r, d, k) ==
    IF k = 0 THEN <<0, r>>
    ELSE LET t == Decimals(r, d, k - 1)
         IN  <<t[1] * 10 + (t[2] * 10) \div d, (t[2] * 10) % d>>

\* n as exactly k digits, zero padded
RECURSIVE Pad(_, _)
Pad(n, k) == IF k = 0 THEN <<>> ELSE Pad(n \div 10, k - 1) \o <<Digit(n % 10)>>

\* "%f" % s: six decimals, rounded to nearest (ties to even), "nan" for nan
FormatF(r) ==
    IF IsNaN(r) THEN <<"n", "a", "n">>
    ELSE LET n    == Abs(r[1])
             d    == r[2]
             t    == Decimals(n % d, d, 6)
             up   == 2 * t[2] > d \/ (2 * t[2] = d /\ t[1] % 2 = 1)
             frac == IF up THEN t[1] + 1 ELSE t[1]
             ip   == IF frac = 1000000 THEN n \div d + 1 ELSE n \div d
             fr   == IF frac = 1000000 THEN 0 ELSE frac
         IN  (IF r[1] < 0 THEN <<"-">> ELSE <<>>)
                 \o DecStr(ip) \o <<".">> \o Pad(fr, 6)

----------------------------------------------------------------------------
(* Sequences *)

SeqsUpTo(S, n) == UNION {[1..k -> S] : k \in 1..n}

\* x in the numpy array a
InArr(x, a) == \E k \in 1..Len(a) : a[k] = x

\* a[mask][0] for mask = (keys == x): the value at the first position whose key
\* is x; position 0 stands for the IndexError of an empty selection
FirstPos(x, keys) ==
    IF InArr(x, keys)
    THEN CHOOSE k \in 1..Len(keys) :
             keys[k] = x /\ \A m \in 1..(k - 1) : keys[m] # x
    ELSE 0

\* d[k] = v on a dict held as a function
Put(d, k, v) == [x \in DOMAIN d \cup {k} |-> IF x = k THEN v ELSE d[x]]

----------------------------------------------------------------------------
(* getCourse *)

\* isstudent: the role of the user's last enrollment in the course
IsStudent(u) ==
    u.roles # <<>> /\ u.roles[Len(u.roles)] = "StudentEnrollment"

\* the users getCourse keeps: students that have a login_id
RECURSIVE Enrolled(_)
Enrolled(us) ==
    IF us = <<>> THEN <<>>
    ELSE (IF IsStudent(Head(us)) /\ Head(us).login_id # <<>>
          THEN <<Head(us)>> ELSE <<>>) \o Enrolled(Tail(us))

GetCourse ==
    /\ loaded' = TRUE
    /\ ids' = [k \in 1..Len(Enrolled(users)) |-> Enrolled(users)[k].id]
    /\ netids' = [k \in 1..Len(Enrolled(users)) |-> Enrolled(users)[k].login_id[1]]
    /\ UNCHANGED <<world, ret, bulk, printed, progress, aside>>

----------------------------------------------------------------------------
(* uploadScores *)

\* a missing netid cell: pandas reads it as the float nan, and nan != nan
NaNId == <<"nan">>

\* the loop over zip(netids, scores) that fills grade_data and unmatchedids
RECURSIVE GradeLoop(_, _, _, _, _)
GradeLoop(nids, scores, j, gd, un) ==
    IF j > Len(nids) \/ j > Len(scores)
    THEN [grade_data |-> gd, unmatchedids |-> un]
    ELSE LET i == nids[j]
         IN  IF i = NaNId
             THEN GradeLoop(nids, scores, j + 1, gd, un)
             ELSE IF InArr(i, netids)
             THEN GradeLoop(nids, scores, j + 1,
                            Put(gd, DecStr(ids[FirstPos(i, netids)]),
                                [posted_grade |-> FormatF(scores[j])]),
                            un)
             ELSE GradeLoop(nids, scores, j + 1, gd, Append(un, i))

\* GradeData that gives up at the first netid it cannot match
RECURSIVE GradeLoopStops(_, _, _, _, _)
GradeLoopStops(nids, scores, j, gd, un) ==
    IF j > Len(nids) \/ j > Len(scores)
    THEN [grade_data |-> gd, unmatchedids |-> un]
    ELSE IF nids[j] = NaNId
    THEN GradeLoopStops(nids, scores, j + 1, gd, un)
    ELSE IF InArr(nids[j], netids)
    THEN GradeLoopStops(nids, scores, j + 1,
                        Put(gd, DecStr(ids[FirstPos(nids[j], netids)]),
                            [posted_grade |-> FormatF(scores[j])]),
                        un)
    ELSE [grade_data |-> gd, unmatchedids |-> Append(un, nids[j])]

GradeDataStops(nids, scores) == GradeLoopStops(nids, scores, 1, <<>>, <<>>)

GradeData(nids, scores) == GradeLoop(nids, scores, 1, <<>>, <<>>)

\* waitForSubmit has returned: the job of the update sent was seen completed
Waited(sent) == IF sent # <<>> THEN "completed" ELSE progress

\* what uploadScores(ass, nids, scores) prints and sends
UploadPrinted(nids, scores) ==
    IF GradeData(nids, scores).unmatchedids # <<>>
    THEN <<GradeData(nids, scores).unmatchedids>>
    ELSE <<>>

UploadBulk(ass, nids, scores) ==
    <<[ass |-> ass, grade_data |-> GradeData(nids, scores).grade_data]>>

UploadScores(ass, nids, scores) ==
    /\ loaded
    /\ ret' = [op |-> "uploadScores",
               args |-> [ass |-> ass, netids |-> nids, scores |-> scores],
               raised |-> "none"]
    /\ bulk' = UploadBulk(ass, nids, scores)
    /\ printed' = UploadPrinted(nids, scores)
    /\ progress' = Waited(bulk')
    /\ UNCHANGED <<world, loaded, ids, netids, aside>>

----------------------------------------------------------------------------
(* uploadScores step by step: the update is sent, then waitForSubmit polls  *)
(* the Progress that Canvas returned for it                                 *)

\* time.sleep(0.5): the seconds between two polls
PollInterval == <<1, 2>>

\* the loop that fills grade_data, the print, submissions_bulk_update
SendUpdate(ass, nids, scores) ==
    /\ loaded
    /\ runs = <<>>
    /\ bulk' = UploadBulk(ass, nids, scores)
    /\ printed' = UploadPrinted(nids, scores)
    /\ progress' = "queued"
    /\ runs' = <<[op |-> "uploadScores", pc |-> "query", slept |-> <<>>,
                  args |-> [ass |-> ass, netids |-> nids, scores |-> scores]]>>
    /\ UNCHANGED <<world, loaded, ids, netids, ret, other, files, qualtrics>>

\* while res.query().workflow_state != "completed": one test of the loop;
\* when it fails waitForSubmit returns, and uploadScores after it
Query ==
    /\ runs # <<>>
    /\ runs[1].op = "uploadScores"
    /\ runs[1].pc = "query"
    /\ IF progress # "completed"
       THEN /\ runs' = [runs EXCEPT ![1].pc = "sleep"]
            /\ ret' = ret
       ELSE /\ runs' = [runs EXCEPT ![1].pc = "done"]
            /\ ret' = [op |-> "uploadScores", args |-> runs[1].args,
                       raised |-> "none"]
    /\ UNCHANGED <<world, loaded, ids, netids, bulk, printed, progress,
                   other, files, qualtrics>>

\* time.sleep(0.5), the body of the loop
Sleep ==
    /\ runs # <<>>
    /\ runs[1].op = "uploadScores"
    /\ runs[1].pc = "sleep"
    /\ runs' = [runs EXCEPT ![1].pc = "query", ![1].slept = <<PollInterval>>]
    /\ UNCHANGED <<world, loaded, ids, netids, ret, bulk, printed, progress,
                   other, files, qualtrics>>

\* Canvas works on the job: queued, running, then completed or failed
JobStep ==
    /\ \/ progress = "queued" /\ progress' = "running"
       \/ progress = "running" /\ progress' \in {"completed", "failed"}
    /\ UNCHANGED <<world, loaded, ids, netids, ret, bulk, printed,
                   other, files, runs, qualtrics>>

----------------------------------------------------------------------------
(* utils.email2netid *)

Email2Netid(emails) ==
    /\ ret' = [op |-> "email2netid", args |-> [emails |-> emails],
               raised |-> "none",
               netids |-> [k \in 1..Len(emails) |-> SplitAt(emails[k])]]
    /\ bulk' = <<>>
    /\ printed' = <<>>
    /\ UNCHANGED <<world, loaded, ids, netids, progress, aside>>

----------------------------------------------------------------------------
(* selfGradingImport *)

HWName == "HW1"

\* qnetids: the netid column lower-cased, or without one the part of
\* RecipientEmail before the "@"
QNetidsOf(sv) ==
    IF sv.netidcol
    THEN [j \in 1..Len(sv.rows) |-> Lower(sv.rows[j].ident)]
    ELSE [j \in 1..Len(sv.rows) |-> SplitAt(sv.rows[j].ident)]

QNetids == QNetidsOf(survey)

\* the question columns that are (ec) or are not (~ec) extra credit
QuesColsOf(sv, ec) == {k \in 1..Len(sv.isec) : sv.isec[k] = ec}

QuesCols(ec) == QuesColsOf(survey, ec)

\* qualtrics[cols].values.sum(axis=1)[j]
RECURSIVE RowSum(_, _)
RowSum(q, cols) ==
    IF cols = {} THEN 0
    ELSE LET k == CHOOSE c \in cols : TRUE
         IN  q[k] + RowSum(q, cols \ {k})

\* Scaled without the division by the number of questions
ScaledNoCount(q, cols, points) ==
    RMul(RDiv(Num(RowSum(q, cols)), Num(OrdinalMax)), Num(points))

\* sum / 3.0 / len(cols) * points
Scaled(q, cols, points) ==
    RMul(RDiv(RDiv(Num(RowSum(q, cols)), Num(OrdinalMax)),
              Num(Cardinality(cols))),
         Num(points))

\* the columns the scores are read from: the question columns, or without
\* any the "HW Score" column, which is column 0
ScoreColsOf(sv) == IF sv.isec # <<>> THEN 1..Len(sv.isec) ELSE {0}

ScoreCols == ScoreColsOf(survey)

\* some row holds text that is no number in one of the score columns: pandas
\* reads such a column as strings
HasTextOf(sv) ==
    \E c \in DOMAIN sv.cells :
        c[2] \in ScoreColsOf(sv) /\ sv.cells[c] = "text"

HasText == HasTextOf(survey)

\* row j has an empty cell in one of the score columns: pandas reads it as nan
HasBlankOf(sv, j) ==
    \E c \in DOMAIN sv.cells :
        c[1] = j /\ c[2] \in ScoreColsOf(sv) /\ sv.cells[c] = "blank"

HasBlank(j) == HasBlankOf(survey, j)

\* the total score of row j of the export sv before any late penalty
AggregatedOf(sv, j, totscore, ecscore) ==
    IF HasBlankOf(sv, j) THEN NaN
    ELSE IF sv.isec # <<>>
    THEN IF QuesColsOf(sv, TRUE) # {}
         THEN RAdd(Scaled(sv.rows[j].q, QuesColsOf(sv, FALSE), totscore),
                   Scaled(sv.rows[j].q, QuesColsOf(sv, TRUE), ecscore))
         ELSE Scaled(sv.rows[j].q, QuesColsOf(sv, FALSE), totscore)
    ELSE Num(sv.rows[j].hwscore)

Aggregated(j, totscore, ecscore) == AggregatedOf(survey, j, totscore, ecscore)

\* the submissions of users in the roster, in the order Canvas lists them
RosterSubsOf(subs) == SelectSeq(subs, LAMBDA t : InArr(t.user_id, ids))

RosterSubs == RosterSubsOf(hwsubs)

SubNetidsOf(subs) ==
    [k \in 1..Len(RosterSubsOf(subs)) |->
        netids[FirstPos(RosterSubsOf(subs)[k].user_id, ids)]]

SubNetids == SubNetidsOf(hwsubs)

\* (duedate - subtime).total_seconds(), <<>> for np.nan
SubTimesOf(due, subs) ==
    [k \in 1..Len(RosterSubsOf(subs)) |->
        IF RosterSubsOf(subs)[k].submitted_at # <<>>
        THEN <<due - RosterSubsOf(subs)[k].submitted_at[1]>>
        ELSE <<>>]

SubTimes == SubTimesOf(hw.due_at, hwsubs)

LatesOf(subs) == [k \in 1..Len(RosterSubsOf(subs)) |-> RosterSubsOf(subs)[k].late]

Lates == LatesOf(hwsubs)

\* LateScore without the zero for a missing submission time
LateScoreKeepsMissing(score, subtime, late, totscore, latePenalty, maxDaysLate) ==
    IF subtime = <<>>
    THEN score
    ELSE LET s == IF subtime[1] < -Grace /\ late
                  THEN RSub(score, RMul(Num(totscore), latePenalty))
                  ELSE score
         IN  IF subtime[1] < -Grace - maxDaysLate * Day THEN Num(0) ELSE s

\* LateScore with a penalty for every day begun
LateScorePerDay(score, subtime, late, totscore, latePenalty, maxDaysLate) ==
    IF subtime = <<>>
    THEN Num(0)
    ELSE LET s == IF subtime[1] < -Grace /\ late
                  THEN RSub(score, RMul(RMul(Num(totscore), latePenalty),
                                        Num((-subtime[1]) \div Day + 1)))
                  ELSE score
         IN  IF subtime[1] < -Grace - maxDaysLate * Day THEN Num(0) ELSE s

\* LateScore without the zero beyond maxDaysLate
LateScoreNoCutoff(score, subtime, late, totscore, latePenalty, maxDaysLate) ==
    IF subtime = <<>>
    THEN Num(0)
    ELSE IF subtime[1] < -Grace /\ late
         THEN RSub(score, RMul(Num(totscore), latePenalty))
         ELSE score

\* the body of the lateness loop for one matched respondent
LateScore(score, subtime, late, totscore, latePenalty, maxDaysLate) ==
    IF subtime = <<>>
    THEN Num(0)
    ELSE LET s == IF subtime[1] < -Grace /\ late
                  THEN RSub(score, RMul(Num(totscore), latePenalty))
                  ELSE score
         IN  IF subtime[1] < -Grace - maxDaysLate * Day THEN Num(0) ELSE s

\* for j, i in enumerate(qnetids): ...
RECURSIVE LateLoopOf(_, _, _, _, _, _, _)
LateLoopOf(qnetids, sub, j, scores, totscore, latePenalty, maxDaysLate) ==
    IF j > Len(qnetids)
    THEN [raised |-> "none", scores |-> scores]
    ELSE IF ~InArr(qnetids[j], netids)
    THEN LateLoopOf(qnetids, sub, j + 1, scores, totscore, latePenalty,
                    maxDaysLate)
    ELSE LET k == FirstPos(qnetids[j], sub.netids)
         IN  IF k = 0
             THEN [raised |-> "IndexError", scores |-> scores]
             ELSE LateLoopOf(qnetids, sub, j + 1,
                             [scores EXCEPT ![j] =
                                 LateScore(scores[j], sub.times[k], sub.lates[k],
                                           totscore, latePenalty, maxDaysLate)],
                             totscore, latePenalty, maxDaysLate)

LateLoop(j, scores, totscore, latePenalty, maxDaysLate) ==
    LateLoopOf(QNetids, [netids |-> SubNetids, times |-> SubTimes, lates |-> Lates],
               j, scores, totscore, latePenalty, maxDaysLate)

\* scores[scores < 0] = 0
Floor0(scores) ==
    [j \in 1..Len(scores) |->
        IF RLt(scores[j], Num(0)) THEN Num(0) ELSE scores[j]]

\* SelfGraded that reads a text cell as nan and goes on
SelfGradedReadsTextAsNaN(ecscore, checkLate, latePenalty, maxDaysLate) ==
    IF HWName \notin assignments
    THEN [raised |-> "AssertionError", scores |-> <<>>]
    ELSE IF survey.isec = <<>> /\ ~survey.hwscorecol
    THEN [raised |-> "AssertionError", scores |-> <<>>]
    ELSE LET agg == [j \in 1..Len(survey.rows) |->
                        IF \E c \in DOMAIN survey.cells : c[1] = j /\ c[2] \in ScoreCols
                        THEN NaN
                        ELSE Aggregated(j, hw.points_possible, ecscore)]
             res == LateLoop(1, agg, hw.points_possible, latePenalty, maxDaysLate)
         IN  IF ~checkLate THEN [raised |-> "none", scores |-> agg]
             ELSE IF res.raised # "none" THEN [raised |-> res.raised, scores |-> <<>>]
             ELSE [raised |-> "none", scores |-> Floor0(res.scores)]

\* SelfGraded that checks lateness whatever checkLate says
SelfGradedAlwaysChecks(ecscore, checkLate, latePenalty, maxDaysLate) ==
    IF HWName \notin assignments
    THEN [raised |-> "AssertionError", scores |-> <<>>]
    ELSE IF survey.isec = <<>> /\ ~survey.hwscorecol
    THEN [raised |-> "AssertionError", scores |-> <<>>]
    ELSE IF HasText
    THEN [raised |-> IF survey.isec # <<>> THEN "TypeError" ELSE "ValueError",
          scores |-> <<>>]
    ELSE LET agg == [j \in 1..Len(survey.rows) |->
                        Aggregated(j, hw.points_possible, ecscore)]
             res == LateLoop(1, agg, hw.points_possible, latePenalty, maxDaysLate)
         IN  IF res.raised # "none" THEN [raised |-> res.raised, scores |-> <<>>]
             ELSE [raised |-> "none", scores |-> Floor0(res.scores)]

\* the scores selfGradingImport ends with, or the exception it raises
SelfGradedOf(sv, name, a, subs, ecscore, checkLate, latePenalty, maxDaysLate) ==
    IF name \notin assignments
    THEN [raised |-> "AssertionError", scores |-> <<>>]
    ELSE IF sv.isec = <<>> /\ ~sv.hwscorecol
    THEN [raised |-> "AssertionError", scores |-> <<>>]
    ELSE IF HasTextOf(sv)
    THEN [raised |-> IF sv.isec # <<>> THEN "TypeError" ELSE "ValueError",
          scores |-> <<>>]
    ELSE LET agg == [j \in 1..Len(sv.rows) |->
                        AggregatedOf(sv, j, a.points_possible, ecscore)]
             res == LateLoopOf(QNetidsOf(sv),
                               [netids |-> SubNetidsOf(subs),
                                times |-> SubTimesOf(a.due_at, subs),
                                lates |-> LatesOf(subs)],
                               1, agg, a.points_possible, latePenalty, maxDaysLate)
         IN  IF ~checkLate THEN [raised |-> "none", scores |-> agg]
             ELSE IF res.raised # "none" THEN [raised |-> res.raised, scores |-> <<>>]
             ELSE [raised |-> "none", scores |-> Floor0(res.scores)]

SelfGraded(ecscore, checkLate, latePenalty, maxDaysLate) ==
    SelfGradedOf(survey, HWName, hw, hwsubs, ecscore, checkLate, latePenalty,
                 maxDaysLate)

\* SelfGradingImport that uploads the aggregated scores before it checks
\* lateness
SelfGradingImportUploadsFirst(ecscore, checkLate, latePenalty, maxDaysLate, noUpload) ==
    \E r \in {SelfGraded(ecscore, checkLate, latePenalty, maxDaysLate)} :
        /\ loaded
        /\ ret' = [op |-> "selfGradingImport",
                   args |-> [ecscore |-> ecscore, checkLate |-> checkLate,
                             latePenalty |-> latePenalty,
                             maxDaysLate |-> maxDaysLate, noUpload |-> noUpload],
                   raised |-> r.raised,
                   netids |-> IF r.raised = "none" THEN QNetids ELSE <<>>,
                   scores |-> r.scores]
        /\ IF r.raised \in {"none", "IndexError"} /\ ~noUpload
           THEN \E agg \in {[j \in 1..Len(survey.rows) |->
                                Aggregated(j, hw.points_possible, ecscore)]} :
                /\ bulk' = UploadBulk(HWName, QNetids, agg)
                /\ printed' = UploadPrinted(QNetids, agg)
           ELSE /\ bulk' = <<>>
                /\ printed' = <<>>
        /\ progress' = Waited(bulk')
        /\ UNCHANGED <<world, loaded, ids, netids, aside>>

\* selfGradingImport from the exported csv on: the export of line 1676 is
\* taken as exportSurvey(surveyId); the call as written, with saveDir, is
\* SelfGradingExport
SelfGradingImport(ecscore, checkLate, latePenalty, maxDaysLate, noUpload) ==
    \E r \in {SelfGraded(ecscore, checkLate, latePenalty, maxDaysLate)} :
        /\ loaded
        /\ ret' = [op |-> "selfGradingImport",
                   args |-> [ecscore |-> ecscore, checkLate |-> checkLate,
                             latePenalty |-> latePenalty,
                             maxDaysLate |-> maxDaysLate, noUpload |-> noUpload],
                   raised |-> r.raised,
                   netids |-> IF r.raised = "none" THEN QNetids ELSE <<>>,
                   scores |-> r.scores]
        /\ IF r.raised = "none" /\ ~noUpload
           THEN /\ bulk' = UploadBulk(HWName, QNetids, r.scores)
                /\ printed' = UploadPrinted(QNetids, r.scores)
           ELSE /\ bulk' = <<>>
                /\ printed' = <<>>
        /\ progress' = Waited(bulk')
        /\ UNCHANGED <<world, loaded, ids, netids, aside>>

----------------------------------------------------------------------------
(* selfGradingImport step by step, for calls that run side by side: the     *)
(* export of the survey into the temporary directory, the reading of the    *)
(* exported file, the scores, the upload.  The call for homework n is run n *)

\* self.coursename = course.name
CourseName == "course"

\* "HW%d" % assignmentNum
HwNameOf(n) == IF n = 1 THEN HWName ELSE "HW2"

\* the homework n of Canvas and its submissions
CanvasOf(n) ==
    IF n = 1 THEN [hw |-> hw, hwsubs |-> hwsubs]
    ELSE [hw |-> other.hw, hwsubs |-> other.hwsubs]

\* the responses Qualtrics holds for the survey of homework n
ResponsesOf(n) == IF n = 1 THEN survey ELSE other.survey

\* "%s HW%d Self-Grade" % (self.coursename, assignmentNum)
SurveyName(n) == <<CourseName, HwNameOf(n), "Self-Grade">>

\* getSurveyId: the id of the one survey that has the name
SurveyId(n) == <<"SV", SurveyName(n)>>

\* SurveyFile that is the same file whatever the survey
SurveyFileShared(n) == <<"tmp", "survey.csv">>

\* the file the export is extracted to and read from:
\* <temporary directory>/<survey id>/<survey name>.csv
SurveyFile(n) == <<"tmp", SurveyId(n), SurveyName(n), ".csv">>

\* hw = self.getAssignment(hwname), getSurveyId, exportSurvey
RunExport(n) ==
    /\ loaded
    /\ n \in DOMAIN runs
    /\ runs[n].pc = "start"
    /\ IF HwNameOf(n) \notin assignments
       THEN /\ runs' = [runs EXCEPT ![n].pc = "done",
                                    ![n].raised = "AssertionError"]
            /\ files' = files
       ELSE /\ runs' = [runs EXCEPT ![n].pc = "read"]
            /\ files' = Put(files, SurveyFile(n), ResponsesOf(n))
    /\ UNCHANGED <<world, loaded, ids, netids, ret, bulk, printed, progress, other, qualtrics>>

\* assert os.path.isfile(surveyfile); qualtrics = pandas.read_csv(surveyfile)
RunRead(n) ==
    /\ n \in DOMAIN runs
    /\ runs[n].pc = "read"
    /\ IF SurveyFile(n) \notin DOMAIN files
       THEN runs' = [runs EXCEPT ![n].pc = "done", ![n].raised = "AssertionError"]
       ELSE runs' = [runs EXCEPT ![n].pc = "score",
                                 ![n].qualtrics = <<files[SurveyFile(n)]>>]
    /\ UNCHANGED <<world, loaded, ids, netids, ret, bulk, printed, progress,
                   other, files, qualtrics>>

\* qnetids and scores, from the file read and the submissions of homework n
RunScore(n) ==
    /\ n \in DOMAIN runs
    /\ runs[n].pc = "score"
    /\ \E r \in {SelfGradedOf(runs[n].qualtrics[1], HwNameOf(n), CanvasOf(n).hw,
                              CanvasOf(n).hwsubs, runs[n].args.ecscore,
                              runs[n].args.checkLate, runs[n].args.latePenalty,
                              runs[n].args.maxDaysLate)} :
           runs' = [runs EXCEPT
                       ![n].pc = IF r.raised = "none" THEN "upload" ELSE "done",
                       ![n].raised = r.raised,
                       ![n].netids = IF r.raised = "none"
                                     THEN QNetidsOf(runs[n].qualtrics[1])
                                     ELSE <<>>,
                       ![n].scores = r.scores]
    /\ UNCHANGED <<world, loaded, ids, netids, ret, bulk, printed, progress,
                   other, files, qualtrics>>

\* self.uploadScores(hw, qnetids, scores); return qnetids, scores, surveyfile
RunUpload(n) ==
    /\ n \in DOMAIN runs
    /\ runs[n].pc = "upload"
    /\ bulk' = bulk \o UploadBulk(HwNameOf(n), runs[n].netids, runs[n].scores)
    /\ printed' = printed \o UploadPrinted(runs[n].netids, runs[n].scores)
    /\ progress' = "completed"
    /\ runs' = [runs EXCEPT ![n].pc = "done"]
    /\ UNCHANGED <<world, loaded, ids, netids, ret, other, files, qualtrics>>

----------------------------------------------------------------------------
(* cornellQualtrics: the surveys of the account and the lists of survey     *)
(* names and ids the client stores                                          *)

\* the names and the ids of the surveys of the account, all pages
SurveyNamesOf(svs) == [k \in 1..Len(svs) |-> svs[k].name]
SurveyIdsOf(svs) == [k \in 1..Len(svs) |-> svs[k].id]

\* listSurveys: self.surveyNames and self.surveyIds become those of the account
Listed(q) ==
    [q EXCEPT !.surveyNames = SurveyNamesOf(q.surveys),
              !.surveyIds = SurveyIdsOf(q.surveys)]

ListSurveys ==
    /\ qualtrics' = Listed(qualtrics)
    /\ ret' = [op |-> "listSurveys", args |-> <<>>, raised |-> "none",
               value |-> <<SurveyNamesOf(qualtrics.surveys),
                           SurveyIdsOf(qualtrics.surveys)>>]
    /\ UNCHANGED <<world, loaded, ids, netids, bulk, printed, progress, other,
                   files, runs>>

\* getSurveyNames(renew): the client after the call; its value is surveyNames
GetSurveyNames(q, renew) == IF renew THEN Listed(q) ELSE q

\* the id Qualtrics gives the next survey it creates
NewSurveyId(q) == <<"SV", Len(q.surveys) + 1>>

\* createSurvey(surveyname)
CreateSurvey(surveyname) ==
    /\ \E q \in {GetSurveyNames(qualtrics, FALSE)} :
          IF InArr(surveyname, q.surveyNames)
          THEN /\ qualtrics' = q
               /\ ret' = [op |-> "createSurvey", args |-> <<surveyname>>,
                          raised |-> "AssertionError", value |-> <<>>]
          ELSE /\ qualtrics' =
                      [q EXCEPT !.surveys =
                          Append(@, [name |-> surveyname, id |-> NewSurveyId(q)])]
               /\ ret' = [op |-> "createSurvey", args |-> <<surveyname>>,
                          raised |-> "none", value |-> <<NewSurveyId(q)>>]
    /\ UNCHANGED <<world, loaded, ids, netids, bulk, printed, progress, other,
                   files, runs>>

----------------------------------------------------------------------------
(* setupPrivateHW, and selfGradingImport up to the export of the survey *)

\* "%s HW%d Self-Assessment" % (self.coursename, assignmentNum)
SetupSurveyName(n) == <<CourseName, HwNameOf(n), "Self-Assessment">>

\* "Written HW%d" % assignmentNum
WrittenNameOf(n) == IF n = 1 THEN "Written HW1" ELSE "Written HW2"

\* "HW%d Self-Grading" % assignmentNum
SelfGradingNameOf(n) == IF n = 1 THEN "HW1 Self-Grading" ELSE "HW2 Self-Grading"

\* getSurveyId(surveyname): position 0 stands for the failed assertion
GetSurveyId(q, surveyname) ==
    IF InArr(surveyname, q.surveyNames)
    THEN <<q.surveyIds[FirstPos(surveyname, q.surveyNames)]>>
    ELSE <<>>

\* getMailingListId(listName): the id of the first list of that name
GetMailingListId(q, listName) ==
    IF \E k \in 1..Len(q.lists) : q.lists[k].name = listName
    THEN <<q.lists[CHOOSE k \in 1..Len(q.lists) :
                      /\ q.lists[k].name = listName
                      /\ \A m \in 1..(k - 1) : q.lists[m].name # listName].id>>
    ELSE <<>>

\* the contacts of the mailing list with the id
ContactsOf(q, listId) ==
    q.lists[CHOOSE k \in 1..Len(q.lists) : q.lists[k].id = listId].contacts

\* the loop over the submissions: the netids that get a link, the netids
\* without one, and the IndexError of a submission from outside the roster
RECURSIVE InjectLinks(_, _, _)
InjectLinks(subs, distnetids, acc) ==
    IF subs = <<>> THEN acc
    ELSE IF ~InArr(Head(subs).user_id, ids)
    THEN [acc EXCEPT !.raised = "IndexError"]
    ELSE LET n == netids[FirstPos(Head(subs).user_id, ids)]
         IN  InjectLinks(Tail(subs), distnetids,
                 IF InArr(n, distnetids)
                 THEN [acc EXCEPT !.linked = Append(@, n)]
                 ELSE [acc EXCEPT !.missing = Append(@, n)])

\* the self-grading assignment setupPrivateHW creates with createAss
PrivateHWDates(due, selfGradeDueDelta, selfGradeReleasedDelta) ==
    [due_at |-> due + selfGradeDueDelta * Day,
     unlock_at |-> due + selfGradeReleasedDelta * Day]

SetupPrivateHW(n, createAss, selfGradeDueDelta, selfGradeReleasedDelta) ==
    LET surveyname == SetupSurveyName(n)
        args == [assignmentNum |-> n, createAss |-> createAss,
                 selfGradeDueDelta |-> selfGradeDueDelta,
                 selfGradeReleasedDelta |-> selfGradeReleasedDelta]
        fresh == ~InArr(surveyname, qualtrics.surveyNames)
        surveyId == NewSurveyId(qualtrics)
        q1 == [qualtrics EXCEPT !.surveys =
                  Append(@, [name |-> surveyname, id |-> surveyId])]
        listId == GetMailingListId(q1, CourseName)
        dist == ContactsOf(q1, listId[1])
        distnetids == [k \in 1..Len(dist) |-> SplitAt(dist[k].email)]
        r == InjectLinks(hwsubs, distnetids,
                         [raised |-> "none", linked |-> <<>>, missing |-> <<>>])
        Failed(e, sid, linked) ==
            [op |-> "setupPrivateHW", args |-> args, raised |-> e,
             surveyId |-> sid, linked |-> linked, created |-> <<>>]
    IN  /\ loaded
        /\ IF ~fresh
           THEN /\ ret' = Failed("AssertionError", <<>>, <<>>)
                /\ UNCHANGED <<qualtrics, assignments, printed>>
           ELSE IF listId = <<>> \/ WrittenNameOf(n) \notin assignments
           THEN /\ ret' = Failed("AssertionError", <<surveyId>>, <<>>)
                /\ qualtrics' = q1
                /\ UNCHANGED <<assignments, printed>>
           ELSE IF r.raised # "none"
           THEN /\ ret' = Failed(r.raised, <<surveyId>>, r.linked)
                /\ qualtrics' = q1
                /\ UNCHANGED <<assignments, printed>>
           ELSE /\ ret' = [op |-> "setupPrivateHW", args |-> args,
                           raised |-> "none", surveyId |-> <<surveyId>>,
                           linked |-> r.linked,
                           created |->
                               IF createAss
                               THEN <<PrivateHWDates(hw.due_at, selfGradeDueDelta,
                                                     selfGradeReleasedDelta)>>
                               ELSE <<>>]
                /\ qualtrics' = q1
                /\ assignments' = IF createAss
                                  THEN assignments \cup {SelfGradingNameOf(n)}
                                  ELSE assignments
                /\ printed' = IF r.missing # <<>> THEN <<r.missing>> ELSE <<>>
        /\ UNCHANGED <<users, hw, hwsubs, sgsubs, survey, grader, loaded, ids,
                       netids, bulk, progress, other, files, runs>>

\* the parameters of cornellQualtrics.exportSurvey after self
ExportSurveyParameters == <<"surveyId", "fileFormat", "useLabels">>

\* a call with one positional argument and the keyword arguments kw: the
\* TypeError of a keyword that names no parameter
Binds(parameters, kw) == \A k \in kw : InArr(k, parameters)

\* selfGradingImport from its first line to the assertion on the exported
\* file: the homework, the survey id, the export
SelfGradingExport(n, saveDir) ==
    LET args == [assignmentNum |-> n, saveDir |-> saveDir]
        surveyId == GetSurveyId(qualtrics, SurveyName(n))
        Ended(e, sid) ==
            [op |-> "selfGradingImport", args |-> args, raised |-> e,
             surveyId |-> sid]
    IN  /\ loaded
        /\ IF HwNameOf(n) \notin assignments \/ surveyId = <<>>
           THEN ret' = Ended("AssertionError", <<>>) /\ files' = files
           ELSE IF ~Binds(ExportSurveyParameters, {"saveDir"})
           THEN ret' = Ended("TypeError", surveyId) /\ files' = files
           ELSE /\ ret' = Ended("none", surveyId)
                /\ files' = Put(files, SurveyFile(n), ResponsesOf(n))
        /\ UNCHANGED <<world, loaded, ids, netids, bulk, printed, progress, other,
                       runs, qualtrics>>

----------------------------------------------------------------------------
(* linearTimePenalty and importNewQuizSelfAssessment *)

SAName == "HW1 Self-Assessment"

\* LinearPenalty that does not divide by maxDaysLate
LinearPenaltyPerDay(t, totscore, latePenalty, maxDaysLate) ==
    LET tdelta == IF ~t.late THEN Num(0)
                  ELSE Rat(Abs(hw.due_at - t.submitted_at[1]), Day)
    IN  IF RLt(Num(maxDaysLate), tdelta)
        THEN Num(totscore)
        ELSE RMul(RMul(tdelta, Num(totscore)), latePenalty)

\* LinearPenalty clamped to the fraction beyond maxDaysLate
LinearPenaltyClamped(t, totscore, latePenalty, maxDaysLate) ==
    LET tdelta == IF ~t.late THEN Num(0)
                  ELSE Rat(Abs(hw.due_at - t.submitted_at[1]), Day)
    IN  IF RLt(Num(maxDaysLate), tdelta)
        THEN RMul(Num(totscore), latePenalty)
        ELSE RMul(RMul(RDiv(tdelta, Num(maxDaysLate)), Num(totscore)), latePenalty)

\* the penalty in points of one submission that has a submission time
LinearPenalty(t, totscore, latePenalty, maxDaysLate) ==
    LET tdelta == IF ~t.late THEN Num(0)
                  ELSE Rat(Abs(hw.due_at - t.submitted_at[1]), Day)
    IN  IF RLt(Num(maxDaysLate), tdelta)
        THEN Num(totscore)
        ELSE RMul(RMul(RDiv(tdelta, Num(maxDaysLate)), Num(totscore)), latePenalty)

\* for t in hw.get_submissions(): ... lates[netid] = ...
RECURSIVE PenaltyLoop(_, _, _, _)
PenaltyLoop(subs, lates, latePenalty, maxDaysLate) ==
    IF subs = <<>> THEN lates
    ELSE LET t == Head(subs)
         IN  IF InArr(t.user_id, ids) /\ t.submitted_at # <<>>
             THEN PenaltyLoop(Tail(subs),
                              Put(lates, netids[FirstPos(t.user_id, ids)],
                                  LinearPenalty(t, hw.points_possible,
                                                latePenalty, maxDaysLate)),
                              latePenalty, maxDaysLate)
             ELSE PenaltyLoop(Tail(subs), lates, latePenalty, maxDaysLate)

\* LinearPenalties with an entry, of no penalty, for every roster student
LinearPenaltiesForAll(latePenalty, maxDaysLate) ==
    [n \in {netids[k] : k \in 1..Len(netids)} |-> Num(0)]

LinearPenalties(latePenalty, maxDaysLate) ==
    PenaltyLoop(hwsubs, <<>>, latePenalty, maxDaysLate)

LinearTimePenalty(latePenalty, maxDaysLate) ==
    /\ loaded
    /\ ret' = [op |-> "linearTimePenalty",
               args |-> [latePenalty |-> latePenalty, maxDaysLate |-> maxDaysLate],
               raised |-> "none",
               lates |-> LinearPenalties(latePenalty, maxDaysLate)]
    /\ bulk' = <<>>
    /\ printed' = <<>>
    /\ UNCHANGED <<world, loaded, ids, netids, progress, aside>>

\* QuizLoop that takes an ungraded self-assessment as a score of 0
RECURSIVE QuizLoopCountsUngraded(_, _, _)
QuizLoopCountsUngraded(subs, lates, acc) ==
    IF subs = <<>> THEN acc
    ELSE LET sub == Head(subs)
             netid == netids[FirstPos(sub.user_id, ids)]
             grade == IF sub.grade = <<>> THEN 0 ELSE sub.grade[1]
         IN  IF ~InArr(sub.user_id, ids)
             THEN QuizLoopCountsUngraded(Tail(subs), lates, acc)
             ELSE IF netid \notin DOMAIN lates
             THEN QuizLoopCountsUngraded(Tail(subs), lates,
                      [acc EXCEPT !.noAssignment = Append(@, netid)])
             ELSE QuizLoopCountsUngraded(Tail(subs), lates,
                      [acc EXCEPT !.netids = Append(@, netid),
                                  !.scores = Append(@,
                                      RSub(Num(grade), lates[netid]))])

\* for sub in sg.get_submissions(): ... the three lists the loop fills
RECURSIVE QuizLoop(_, _, _)
QuizLoop(subs, lates, acc) ==
    IF subs = <<>> THEN acc
    ELSE LET sub == Head(subs)
             netid == netids[FirstPos(sub.user_id, ids)]
         IN  IF ~InArr(sub.user_id, ids) \/ sub.grade = <<>>
             THEN QuizLoop(Tail(subs), lates, acc)
             ELSE IF netid \notin DOMAIN lates
             THEN QuizLoop(Tail(subs), lates,
                           [acc EXCEPT !.noAssignment = Append(@, netid)])
             ELSE QuizLoop(Tail(subs), lates,
                           [acc EXCEPT !.netids = Append(@, netid),
                                       !.scores = Append(@,
                                           RSub(Num(sub.grade[1]), lates[netid]))])

\* the orders list(set) may give the elements of S
Perms(S) ==
    {f \in [1..Cardinality(S) -> S] :
        \A a, b \in 1..Cardinality(S) : a # b => f[a] # f[b]}

ImportNewQuizSelfAssessment(latePenalty, maxDaysLate) ==
    IF HWName \notin assignments \/ SAName \notin assignments
    THEN /\ loaded
         /\ ret' = [op |-> "importNewQuizSelfAssessment",
                    args |-> [latePenalty |-> latePenalty,
                              maxDaysLate |-> maxDaysLate],
                    raised |-> "AssertionError"]
         /\ bulk' = <<>>
         /\ printed' = <<>>
         /\ progress' = Waited(bulk')
         /\ UNCHANGED <<world, loaded, ids, netids, aside>>
    ELSE \E lates \in {LinearPenalties(latePenalty, maxDaysLate)} :
         \E r \in {QuizLoop(sgsubs, lates,
                            [netids |-> <<>>, scores |-> <<>>,
                             noAssignment |-> <<>>])} :
         \E noScore \in Perms(DOMAIN lates \ {r.netids[k] : k \in 1..Len(r.netids)}) :
            /\ loaded
            /\ ret' = [op |-> "importNewQuizSelfAssessment",
                       args |-> [latePenalty |-> latePenalty,
                                 maxDaysLate |-> maxDaysLate],
                       raised |-> "none",
                       submittedScoreNoAssignment |-> r.noAssignment,
                       submittedAssignmentNoScore |-> noScore,
                       netids |-> r.netids,
                       scores |-> r.scores]
            /\ bulk' = UploadBulk(HWName, r.netids, r.scores)
            /\ printed' = UploadPrinted(r.netids, r.scores)
            /\ progress' = Waited(bulk')
            /\ UNCHANGED <<world, loaded, ids, netids, aside>>

----------------------------------------------------------------------------
(* genCourseMailingList and updateCourseMailingList *)

\* nid + "@cornell.edu"
CornellEmail(nid) == nid \o <<"@", "cornell.edu">>

\* the id Qualtrics gives the next contact of a list
NewContactId(contacts) ==
    LET used == {contacts[k].id[2] : k \in 1..Len(contacts)}
    IN  <<"MLRP", IF used = {} THEN 1
                  ELSE 1 + CHOOSE m \in used : \A x \in used : x <= m>>

\* addListContact for every email of the sequence
RECURSIVE AddContacts(_, _)
AddContacts(contacts, emails) ==
    IF emails = <<>> THEN contacts
    ELSE AddContacts(Append(contacts, [id |-> NewContactId(contacts),
                                       email |-> Head(emails)]),
                     Tail(emails))

\* deleteListContact for every contact id of the set
DeleteContacts(contacts, cids) ==
    SelectSeq(contacts, LAMBDA c : c.id \notin cids)

\* the response of getListContacts: status 200 and the contacts in its body
ListContactsResponse(q, listId) ==
    [status_code |-> 200, elements |-> ContactsOf(q, listId)]

\* iterating a requests.Response: the body in chunks of 128 bytes, and the
\* body of a contacts response is never empty
IterResponse(response) ==
    [k \in 1..(1 + Len(response.elements)) |-> [bytes |-> k]]

\* el[key]: a dict gives its value, bytes indexed by a string a TypeError
Item(el, key) == IF key \in DOMAIN el THEN <<el[key]>> ELSE <<>>

\* the distinct values of a list, in the order of their first occurrence
RECURSIVE Distinct(_)
Distinct(l) ==
    IF l = <<>> THEN <<>>
    ELSE <<Head(l)>> \o SelectSeq(Distinct(Tail(l)), LAMBDA x : x # Head(l))

\* the lists of updateCourseMailingList from the elements it iterates over,
\* and the contacts after its additions and deletions
UpdatedContacts(contacts, elements) ==
    IF \E k \in 1..Len(elements) :
           Item(elements[k], "id") = <<>> \/ Item(elements[k], "email") = <<>>
    THEN [raised |-> "TypeError", contacts |-> contacts]
    ELSE LET listids == [k \in 1..Len(elements) |-> elements[k].id]
             listemails == [k \in 1..Len(elements) |-> elements[k].email]
             emails == [k \in 1..Len(netids) |-> CornellEmail(netids[k])]
             missing == SelectSeq(Distinct(emails),
                                  LAMBDA m : ~InArr(m, listemails))
             extra == {e \in {listemails[k] : k \in 1..Len(listemails)} :
                          ~InArr(e, emails)}
             added == AddContacts(contacts, missing)
         IN  [raised |-> "none",
              contacts |-> DeleteContacts(added,
                               {listids[FirstPos(e, listemails)] : e \in extra})]

UpdateCourseMailingList ==
    LET listId == GetMailingListId(qualtrics, CourseName)
    IN  /\ loaded
        /\ IF listId = <<>>
           THEN /\ ret' = [op |-> "updateCourseMailingList", args |-> <<>>,
                           raised |-> "AssertionError"]
                /\ qualtrics' = qualtrics
           ELSE \E r \in {UpdatedContacts(
                              ContactsOf(qualtrics, listId[1]),
                              IterResponse(
                                  ListContactsResponse(qualtrics, listId[1])))} :
                /\ ret' = [op |-> "updateCourseMailingList", args |-> <<>>,
                           raised |-> r.raised]
                /\ qualtrics' =
                       [qualtrics EXCEPT !.lists =
                           [k \in 1..Len(@) |->
                               IF @[k].id = listId[1]
                               THEN [@[k] EXCEPT !.contacts = r.contacts]
                               ELSE @[k]]]
        /\ UNCHANGED <<world, loaded, ids, netids, bulk, printed, progress, other,
                       files, runs>>

\* genCourseMailingList: a new list of the course with the roster as contacts
GenCourseMailingList ==
    /\ loaded
    /\ IF \E k \in 1..Len(qualtrics.lists) : qualtrics.lists[k].name = CourseName
       THEN /\ ret' = [op |-> "genCourseMailingList", args |-> <<>>,
                       raised |-> "AssertionError"]
            /\ qualtrics' = qualtrics
       ELSE /\ ret' = [op |-> "genCourseMailingList", args |-> <<>>,
                       raised |-> "none"]
            /\ qualtrics' =
                   [qualtrics EXCEPT !.lists =
                       Append(@, [name |-> CourseName,
                                  id |-> <<"ML", Len(@) + 1>>,
                                  contacts |->
                                      AddContacts(<<>>,
                                          [k \in 1..Len(netids) |->
                                              CornellEmail(netids[k])])])]
    /\ UNCHANGED <<world, loaded, ids, netids, bulk, printed, progress, other,
                   files, runs>>

----------------------------------------------------------------------------
(* The assignment choosers of cornellInterface and dueDatesFromCSV *)

\* the Canvas number of the course of the model, as listCourses returns it
CourseNum == 7

\* the Canvas id of the assignment with the name
AssignmentIdOf(name) ==
    CASE name = HWName -> 101
      [] name = "HW1 Self-Assessment" -> 102
      [] OTHER -> 103

\* listAssignments: the ids of the assignments of the course
ListedAssignments == {AssignmentIdOf(a) : a \in assignments}

\* the outcome of a chooser: the menus shown, and the assignment returned or
\* the exception raised
Chosen(op, courseNum, assignmentNum, raised, menus, value) ==
    [op |-> op, args |-> [courseNum |-> courseNum, assignmentNum |-> assignmentNum],
     raised |-> raised, menus |-> menus, value |-> value]

\* cornellInterface.getAssignment(c, courseNum, assignmentNum)
InterfaceGetAssignment(courseNum, assignmentNum) ==
    LET op == "cornellInterface.getAssignment"
        menu1 == IF courseNum = <<>> THEN <<"Choose course">> ELSE <<>>
    IN  /\ \E cn \in IF courseNum = <<>> THEN {CourseNum} ELSE {courseNum[1]} :
              /\ loaded' = TRUE
              /\ ids' = [k \in 1..Len(Enrolled(users)) |-> Enrolled(users)[k].id]
              /\ netids' = [k \in 1..Len(Enrolled(users)) |->
                               Enrolled(users)[k].login_id[1]]
        /\ IF assignmentNum = <<>>
           THEN \E assignment \in ListedAssignments :
                    ret' = Chosen(op, courseNum, assignmentNum, "none",
                                  menu1 \o <<"Choose assignment">>, <<assignment>>)
           ELSE ret' = Chosen(op, courseNum, assignmentNum, "UnboundLocalError",
                              menu1, <<>>)
        /\ UNCHANGED <<world, bulk, printed, progress, aside>>

\* dueDatesFromCSV.getAssignment(c, args)
DueDatesGetAssignment(courseNum, assignmentNum) ==
    LET op == "dueDatesFromCSV.getAssignment"
        menu1 == IF courseNum = <<>> THEN <<"Choose course">> ELSE <<>>
    IN  /\ \E cn \in IF courseNum = <<>> THEN {CourseNum} ELSE {courseNum[1]} :
              /\ loaded' = TRUE
              /\ ids' = [k \in 1..Len(Enrolled(users)) |-> Enrolled(users)[k].id]
              /\ netids' = [k \in 1..Len(Enrolled(users)) |->
                               Enrolled(users)[k].login_id[1]]
        /\ IF assignmentNum = <<>>
           THEN \E assignment \in ListedAssignments :
                    ret' = Chosen(op, courseNum, assignmentNum, "none",
                                  menu1 \o <<"Choose assignment">>, <<assignment>>)
           ELSE ret' = Chosen(op, courseNum, assignmentNum, "none", menu1,
                              assignmentNum)
        /\ UNCHANGED <<world, bulk, printed, progress, aside>>

----------------------------------------------------------------------------
(* exportSurvey step by step: the export request, the checks of its         *)
(* progress, the download.  legacy is the exportSurvey of the one-file       *)
(* cornellGrading.py                                                        *)

\* PollingOnce: the loop that checks the progress once
PollingOnce(progressStatus) == FALSE

\* while progressStatus != "complete" and progressStatus != "failed"
Polling(progressStatus) ==
    progressStatus # "complete" /\ progressStatus # "failed"

\* Step 1: the export request, sent again after a response of status 500
\* (not by the legacy code); Qualtrics starts the export
ExportStart(n, legacy) ==
    /\ runs = <<>>
    /\ qualtrics' = [qualtrics EXCEPT !.exports =
                         Append(@, [status |-> "inProgress", fileId |-> <<>>])]
    /\ \E posts \in IF legacy THEN {1} ELSE {1, 2} :
       runs' = <<[op |-> "exportSurvey", pc |-> "poll", legacy |-> legacy,
                  args |-> [assignmentNum |-> n], posts |-> posts,
                  progressId |-> Len(qualtrics.exports) + 1,
                  progressStatus |-> "inProgress", checks |-> <<>>,
                  downloads |-> <<>>, raised |-> "none"]>>
    /\ UNCHANGED <<world, loaded, ids, netids, ret, bulk, printed, progress,
                   other, files>>

\* Step 2, one turn of the loop: the check of the progress
ExportCheck ==
    /\ runs # <<>>
    /\ runs[1].op = "exportSurvey"
    /\ runs[1].pc = "poll"
    /\ \E response \in {qualtrics.exports[runs[1].progressId]} :
           runs' = [runs EXCEPT
                       ![1].progressStatus = response.status,
                       ![1].checks = <<response>>,
                       ![1].pc = IF Polling(response.status) THEN "poll"
                                 ELSE "checked"]
    /\ UNCHANGED <<world, loaded, ids, netids, ret, bulk, printed, progress,
                   other, files, qualtrics>>

\* Qualtrics: an export in progress completes, and only then has a file id,
\* or fails
ExportJobStep ==
    /\ \E k \in 1..Len(qualtrics.exports) :
          /\ qualtrics.exports[k].status = "inProgress"
          /\ \/ qualtrics' = [qualtrics EXCEPT
                                  !.exports[k] = [status |-> "complete",
                                                  fileId |-> <<<<"file", k>>>>]]
             \/ qualtrics' = [qualtrics EXCEPT !.exports[k].status = "failed"]
    /\ UNCHANGED <<world, loaded, ids, netids, ret, bulk, printed, progress,
                   other, files, runs>>

\* Steps 2.1 to 4: the error of a failed export, the download of the file of
\* the last check, the extraction.  The legacy test 'progressStatus is
\* "failed"' compares identities: it may or may not see the failure
ExportFinish ==
    /\ runs # <<>>
    /\ runs[1].op = "exportSurvey"
    /\ runs[1].pc = "checked"
    /\ \E isfailed \in IF runs[1].legacy
                        THEN {FALSE, runs[1].progressStatus = "failed"}
                        ELSE {runs[1].progressStatus = "failed"} :
          IF isfailed
          THEN /\ runs' = [runs EXCEPT ![1].pc = "done", ![1].raised = "Exception"]
               /\ files' = files
          ELSE IF runs[1].checks[1].fileId = <<>>
          THEN /\ runs' = [runs EXCEPT ![1].pc = "done", ![1].raised = "KeyError"]
               /\ files' = files
          ELSE /\ runs' = [runs EXCEPT
                              ![1].pc = "done",
                              ![1].downloads =
                                  Append(@, runs[1].checks[1].fileId[1])]
               /\ files' = Put(files, SurveyFile(runs[1].args.assignmentNum),
                               ResponsesOf(runs[1].args.assignmentNum))
    /\ UNCHANGED <<world, loaded, ids, netids, ret, bulk, printed, progress,
                   other, qualtrics>>

----------------------------------------------------------------------------
(* setupNewQuizSelfAssessment *)

\* unlockdate and selfgradeduedate of setupNewQuizSelfAssessment
NewQuizDates(due, selfGradeDueDelta, selfGradeReleasedDelta) ==
    LET unlockdate == due + selfGradeReleasedDelta * Day
    IN  [due_at |-> unlockdate + selfGradeDueDelta * Day,
         unlock_at |-> unlockdate]

\* setupNewQuizSelfAssessment with the default preamble: the solutions page
\* and the New Quiz "<hwname> Self-Assessment" with its dates
SetupNewQuizSelfAssessment(n, selfGradeDueDelta, selfGradeReleasedDelta) ==
    LET args == [assignmentNum |-> n, createAss |-> TRUE,
                 selfGradeDueDelta |-> selfGradeDueDelta,
                 selfGradeReleasedDelta |-> selfGradeReleasedDelta]
    IN  /\ loaded
        /\ IF HwNameOf(n) \notin assignments
           THEN /\ ret' = [op |-> "setupNewQuizSelfAssessment", args |-> args,
                           raised |-> "AssertionError", created |-> <<>>]
                /\ assignments' = assignments
           ELSE /\ ret' = [op |-> "setupNewQuizSelfAssessment", args |-> args,
                           raised |-> "none",
                           created |-> <<NewQuizDates(hw.due_at, selfGradeDueDelta,
                                                      selfGradeReleasedDelta)>>]
                /\ assignments' = assignments \cup {SAName}
        /\ UNCHANGED <<users, hw, hwsubs, sgsubs, survey, grader, loaded, ids,
                       netids, bulk, printed, progress, aside>>

----------------------------------------------------------------------------
(* matlabImport *)

MatlabName == "MATLAB 1"

\* code points of the characters of the model, for the order numpy sorts by
CharCode(c) ==
    CASE c = "." -> 46 [] c = "@" -> 64
      [] c = "A" -> 65 [] c = "B" -> 66 [] c = "C" -> 67
      [] c = "a" -> 97 [] c = "b" -> 98 [] c = "c" -> 99
      [] OTHER -> 0

RECURSIVE StrLess(_, _)
StrLess(a, b) ==
    IF b = <<>> THEN FALSE
    ELSE IF a = <<>> THEN TRUE
    ELSE IF Head(a) # Head(b) THEN CharCode(Head(a)) < CharCode(Head(b))
    ELSE StrLess(Tail(a), Tail(b))

\* np.unique: the distinct strings of S in ascending order
RECURSIVE Sorted(_)
Sorted(S) ==
    IF S = {} THEN <<>>
    ELSE LET m == CHOOSE x \in S : \A y \in S \ {x} : StrLess(x, y)
         IN  <<m>> \o Sorted(S \ {m})

\* np.max(tottests[probs == prob])
MaxTests(rows, prob) ==
    CHOOSE m \in {rows[k].total : k \in {i \in 1..Len(rows) : rows[i].prob = prob}} :
        \A k \in 1..Len(rows) : rows[k].prob = prob => rows[k].total <= m

\* the score of one row of the report within its problem
ProblemScore(row, tottest, duedate) ==
    LET subtime == duedate - row.time
        islate  == row.late = "Y"
        p0 == Rat(row.passed, tottest)
        p1 == IF subtime < -Grace /\ islate THEN RSub(p0, Rat(1, 4)) ELSE p0
        p2 == IF subtime < -Grace - 3 * Day /\ islate THEN Num(0) ELSE p1
    IN  IF RLt(p2, Num(0)) THEN Num(0) ELSE p2

\* scores[uemails == e] += s over the rows of every problem
RECURSIVE EmailScore(_, _, _, _)
EmailScore(rows, k, e, duedate) ==
    IF k > Len(rows) THEN Num(0)
    ELSE RAdd(IF rows[k].email = e
              THEN ProblemScore(rows[k], MaxTests(rows, rows[k].prob), duedate)
              ELSE Num(0),
              EmailScore(rows, k + 1, e, duedate))

MatlabScores(duedate) ==
    LET uprobs  == {grader[k].prob : k \in 1..Len(grader)}
        uemails == Sorted({grader[k].email : k \in 1..Len(grader)})
    IN  [netids |-> [k \in 1..Len(uemails) |-> SplitAt(uemails[k])],
         scores |-> [k \in 1..Len(uemails) |->
                        RMul(EmailScore(grader, 1, uemails[k], duedate),
                             Rat(10, Cardinality(uprobs)))]]

MatlabImport(duedate) ==
    /\ loaded
    /\ assignments' = assignments \cup {MatlabName}
    /\ IF grader = <<>>
       THEN /\ ret' = [op |-> "matlabImport", args |-> [duedate |-> duedate],
                       raised |-> "ZeroDivisionError"]
            /\ bulk' = <<>>
            /\ printed' = <<>>
       ELSE \E r \in {MatlabScores(duedate)} :
            /\ ret' = [op |-> "matlabImport", args |-> [duedate |-> duedate],
                       raised |-> "none", netids |-> r.netids, scores |-> r.scores]
            /\ bulk' = UploadBulk(MatlabName, r.netids, r.scores)
            /\ printed' = UploadPrinted(r.netids, r.scores)
    /\ progress' = Waited(bulk')
    /\ UNCHANGED <<users, hw, hwsubs, sgsubs, survey, grader, loaded, ids, netids,
                   aside>>

----------------------------------------------------------------------------
(* The worlds the operations run in *)

DueAt == 10 * Day

H1 == <<"a", "b">>
H2 == <<"b", "a">>
Unknown == <<"c", "c">>

CourseUsers ==
    <<[id |-> 11, login_id |-> <<H1>>, roles |-> <<"StudentEnrollment">>],
      [id |-> 12, login_id |-> <<H2>>, roles |-> <<"StudentEnrollment">>],
      [id |-> 13, login_id |-> <<Unknown>>, roles |-> <<"TaEnrollment">>]>>

NoCall == [op |-> "none"]

\* a course with one homework has no second one
NoOther == [hw |-> <<>>, hwsubs |-> <<>>, survey |-> <<>>]

\* seconds past the due date at which a submission may arrive
Offsets ==
    {-Day, 0, Grace, Grace + 1, Day \div 2, Day, Day + 1, Day + Grace,
     Day + Grace + 1, 2 * Day, 2 * Day + 1, 2 * Day + Grace,
     2 * Day + Grace + 1, 3 * Day}

\* what Canvas may hold for one user: no record, a record without a
\* submission, a record with a submission time and a late flag
SubsOf(u, offsets) ==
    {<<>>, <<[user_id |-> u, submitted_at |-> <<>>, late |-> FALSE]>>}
    \cup {<<[user_id |-> u, submitted_at |-> <<DueAt + o>>, late |-> l]>> :
              o \in offsets, l \in BOOLEAN}

OnTime(u) == <<[user_id |-> u, submitted_at |-> <<DueAt>>, late |-> FALSE]>>

TaSub == <<[user_id |-> 13, submitted_at |-> <<DueAt>>, late |-> FALSE]>>

EcScores == {3}
LatePenalties == {<<1, 4>>, <<1, 2>>}
MaxDaysLates == {1, 2}

Email(h) == h \o <<"@", "c", ".", "c">>

\* a report of two problems: the first student on time and late, the second
\* student late beyond the three days on the one problem done
Report ==
    <<[email |-> Email(H1), passed |-> 2, total |-> 2, prob |-> "P1",
       time |-> DueAt, late |-> "N"],
      [email |-> Email(H1), passed |-> 0, total |-> 2, prob |-> "P2",
       time |-> DueAt + Day, late |-> "Y"],
      [email |-> Email(H2), passed |-> 1, total |-> 2, prob |-> "P1",
       time |-> DueAt + 4 * Day, late |-> "Y"]>>

NoSurvey ==
    [netidcol |-> TRUE, isec |-> <<FALSE>>, hwscorecol |-> FALSE, rows |-> <<>>,
     cells |-> <<>>]

\* a Qualtrics account without surveys, and the client constructed on it
NoQualtrics ==
    [surveys |-> <<>>, surveyNames |-> <<>>, surveyIds |-> <<>>, lists |-> <<>>,
     exports |-> <<>>]

InitCourse ==
    /\ users = CourseUsers
    /\ assignments = {HWName, SAName}
    /\ hw = [due_at |-> DueAt, points_possible |-> 10]
    /\ loaded = FALSE
    /\ ids = <<>>
    /\ netids = <<>>
    /\ ret = NoCall
    /\ bulk = <<>>
    /\ printed = <<>>
    /\ progress = "none"
    /\ other = NoOther
    /\ files = <<>>
    /\ runs = <<>>

InitRest ==
    /\ InitCourse
    /\ qualtrics = NoQualtrics

\* survey rows of one question: the first student with a low and with a full
\* score, the second student, a respondent who is not in the roster
LateRows ==
    {[ident |-> H1, q |-> <<1>>, hwscore |-> 0],
     [ident |-> H1, q |-> <<3>>, hwscore |-> 0],
     [ident |-> H2, q |-> <<3>>, hwscore |-> 0],
     [ident |-> Unknown, q |-> <<3>>, hwscore |-> 0]}

\* the late policy of selfGradingImport: one question, every submission state
InitLate ==
    /\ InitRest
    /\ \E s1 \in SubsOf(11, Offsets), s2 \in {<<>>, OnTime(12)} :
           hwsubs = TaSub \o s1 \o s2
    /\ sgsubs = <<>>
    /\ grader = Report
    /\ \E rows \in SeqsUpTo(LateRows, MaxRows) :
           survey = [netidcol |-> TRUE, isec |-> <<FALSE>>, hwscorecol |-> FALSE,
                     rows |-> rows, cells |-> <<>>]

\* what Canvas may hold for one user of the self-assessment quiz: no record,
\* an ungraded record, a record with a grade
GradesOf(u, grades) ==
    {<<>>, <<[user_id |-> u, grade |-> <<>>]>>}
    \cup {<<[user_id |-> u, grade |-> <<g>>]>> : g \in grades}

\* the linear policy: every submission state, every self-assessment state
InitLinear ==
    /\ InitRest
    /\ \E s1 \in SubsOf(11, Offsets), s2 \in {<<>>, OnTime(12)} :
           hwsubs = TaSub \o s1 \o s2
    /\ \E g1 \in GradesOf(11, {0, 2, 10}), g2 \in GradesOf(12, {10}) :
           sgsubs = <<[user_id |-> 13, grade |-> <<5>>]>> \o g1 \o g2
    /\ grader = Report
    /\ survey = NoSurvey

Init == InitLate \/ InitLinear

Next ==
    \/ GetCourse
    \/ /\ ret = NoCall
       /\ \E ec \in EcScores, cl \in BOOLEAN, lp \in LatePenalties,
             md \in MaxDaysLates :
              SelfGradingImport(ec, cl, lp, md, FALSE)
    \/ /\ ret = NoCall
       /\ \E lp \in LatePenalties, md \in MaxDaysLates :
              LinearTimePenalty(lp, md)
    \/ /\ ret = NoCall
       /\ \E lp \in LatePenalties, md \in MaxDaysLates :
              ImportNewQuizSelfAssessment(lp, md)
    \/ /\ ret = NoCall
       /\ MatlabImport(DueAt)

Spec == Init /\ [][Next]_vars

----------------------------------------------------------------------------
(* Identity resolution: raw identities in every letter case, with and      *)
(* without an email domain, through the survey, the report and email2netid *)

UpperChar(c) ==
    CASE c = "a" -> "A"
      [] c = "b" -> "B"
      [] c = "c" -> "C"
      [] OTHER -> c

\* s in every letter case
CaseVariants(s) ==
    {v \in [1..Len(s) -> {"a", "b", "c", "A", "B", "C"}] :
        \A k \in 1..Len(s) : v[k] \in {s[k], UpperChar(s[k])}}

Domain == <<"c">>

\* h@domain in every letter case of h and of the domain
EmailVariants(h) ==
    {v \o <<"@">> \o d : v \in CaseVariants(h), d \in CaseVariants(Domain)}

RawIdentities ==
    CaseVariants(H1) \cup EmailVariants(H1)
        \cup CaseVariants(H2) \cup EmailVariants(H2) \cup {Unknown}

InitIdentity ==
    /\ InitRest
    /\ hwsubs = TaSub \o OnTime(11) \o OnTime(12)
    /\ sgsubs = <<>>
    /\ \E raw \in SeqsUpTo(RawIdentities, MaxRows), col \in BOOLEAN :
           /\ survey = [netidcol |-> col, isec |-> <<FALSE>>,
                        hwscorecol |-> FALSE,
                        rows |-> [k \in 1..Len(raw) |->
                                     [ident |-> raw[k], q |-> <<3>>, hwscore |-> 0]],
                        cells |-> <<>>]
           /\ grader = [k \in 1..Len(raw) |->
                            [email |-> raw[k], passed |-> 2, total |-> 2,
                             prob |-> "P1", time |-> DueAt, late |-> "N"]]

NextIdentity ==
    \/ GetCourse
    \/ /\ ret = NoCall
       /\ \E cl \in BOOLEAN : SelfGradingImport(3, cl, <<1, 4>>, 1, FALSE)
    \/ /\ ret = NoCall
       /\ MatlabImport(DueAt)
    \/ /\ ret = NoCall
       /\ Email2Netid([k \in 1..Len(grader) |-> grader[k].email])

SpecIdentity == InitIdentity /\ [][NextIdentity]_vars

----------------------------------------------------------------------------
(* uploadScores on every short list of netids and scores *)

\* the course with both students on time, no survey and no quiz
InitCanvas ==
    /\ InitCourse
    /\ hwsubs = TaSub \o OnTime(11) \o OnTime(12)
    /\ sgsubs = <<>>
    /\ survey = NoSurvey
    /\ grader = Report

InitUpload ==
    /\ InitRest
    /\ hwsubs = TaSub \o OnTime(11) \o OnTime(12)
    /\ sgsubs = <<>>
    /\ survey = NoSurvey
    /\ grader = Report

UploadNetids == {H1, H2, Unknown, <<"A", "b">>, NaNId}

UploadValues == {Num(0), Rat(5, 6), Num(10)}

NextUpload ==
    \/ GetCourse
    \/ /\ ret = NoCall
       /\ \E nids \in SeqsUpTo(UploadNetids, MaxRows) :
          \E scores \in [1..Len(nids) -> UploadValues] :
              UploadScores(HWName, nids, scores)

SpecUpload == InitUpload /\ [][NextUpload]_vars

----------------------------------------------------------------------------
(* The wait of uploadScores for the job of its update: the program keeps    *)
(* running and Canvas brings every job to an end                            *)

NextWait ==
    \/ GetCourse
    \/ \E nids \in SeqsUpTo(UploadNetids, MaxRows) :
       \E scores \in [1..Len(nids) -> UploadValues] :
           SendUpdate(HWName, nids, scores)
    \/ Query
    \/ Sleep
    \/ JobStep

SpecWait ==
    /\ InitUpload
    /\ [][NextWait]_vars
    /\ WF_vars(Query)
    /\ WF_vars(Sleep)
    /\ WF_vars(JobStep)

----------------------------------------------------------------------------
(* Two calls of selfGradingImport on the loaded course, for the first and   *)
(* for the second homework, their steps in any order                        *)

\* a call of selfGradingImport that has not taken its first step
Started(cl) ==
    [op |-> "selfGradingImport", pc |-> "start",
     args |-> [ecscore |-> 3, checkLate |-> cl, latePenalty |-> <<1, 4>>,
               maxDaysLate |-> 1, noUpload |-> FALSE],
     qualtrics |-> <<>>, raised |-> "none", netids |-> <<>>, scores |-> <<>>]

\* the responses of the first survey: one question
FirstRows ==
    {[ident |-> H1, q |-> <<1>>, hwscore |-> 0],
     [ident |-> H2, q |-> <<3>>, hwscore |-> 0]}

\* the responses of the second survey: two questions, the second extra credit
OtherRows ==
    {<<[ident |-> H1, q |-> <<2, 2>>, hwscore |-> 0]>>,
     <<[ident |-> H2, q |-> <<0, 3>>, hwscore |-> 0]>>,
     <<[ident |-> H2, q |-> <<0, 3>>, hwscore |-> 0],
       [ident |-> H1, q |-> <<2, 2>>, hwscore |-> 0]>>}

InitConcurrent ==
    /\ users = CourseUsers
    /\ assignments = {HWName, SAName, HwNameOf(2)}
    /\ hw = [due_at |-> DueAt, points_possible |-> 10]
    /\ loaded = FALSE
    /\ ids = <<>>
    /\ netids = <<>>
    /\ ret = NoCall
    /\ bulk = <<>>
    /\ printed = <<>>
    /\ progress = "none"
    /\ files = <<>>
    /\ qualtrics = NoQualtrics
    /\ \E s1 \in SubsOf(11, {Day \div 2}) :
           hwsubs = TaSub \o s1 \o OnTime(12)
    /\ sgsubs = <<>>
    /\ grader = Report
    /\ \E rows \in SeqsUpTo(FirstRows, MaxRows) :
           survey = [netidcol |-> TRUE, isec |-> <<FALSE>>, hwscorecol |-> FALSE,
                     rows |-> rows, cells |-> <<>>]
    /\ \E rows \in OtherRows, s2 \in SubsOf(12, {2 * Day}) :
           other = [hw |-> [due_at |-> DueAt + Day, points_possible |-> 20],
                    hwsubs |-> OnTime(11) \o s2,
                    survey |-> [netidcol |-> FALSE, isec |-> <<FALSE, TRUE>>,
                                hwscorecol |-> FALSE, rows |-> rows,
                                cells |-> <<>>]]
    /\ \E cl \in BOOLEAN : runs = [n \in {1, 2} |-> Started(cl)]

NextConcurrent ==
    \/ GetCourse
    \/ \E n \in {1, 2} : RunExport(n)
    \/ \E n \in {1, 2} : RunRead(n)
    \/ \E n \in {1, 2} : RunScore(n)
    \/ \E n \in {1, 2} : RunUpload(n)

SpecConcurrent == InitConcurrent /\ [][NextConcurrent]_vars

----------------------------------------------------------------------------
(* createSurvey and listSurveys on one client, any number of times *)

MaxSurveys == 3     \* surveys of the Qualtrics account

SurveyTitles == {SurveyName(1), SetupSurveyName(1), <<CourseName, "Poll">>}

\* the account holds surveys of distinct names, and the client has just been
\* constructed: __init__ lists the surveys
InitSurveys ==
    /\ InitCanvas
    /\ \E names \in {<<>>} \cup SeqsUpTo(SurveyTitles, MaxSurveys - 1) :
           /\ \A i, j \in 1..Len(names) : names[i] = names[j] => i = j
           /\ qualtrics =
                  Listed([NoQualtrics EXCEPT !.surveys =
                             [k \in 1..Len(names) |->
                                 [name |-> names[k], id |-> <<"SV", k>>]]])

NextSurveys ==
    \/ ListSurveys
    \/ /\ Len(qualtrics.surveys) < MaxSurveys
       /\ \E name \in SurveyTitles : CreateSurvey(name)

SpecSurveys == InitSurveys /\ [][NextSurveys]_vars

----------------------------------------------------------------------------
(* setupPrivateHW and the start of selfGradingImport, in any order, on a    *)
(* course with or without its homework assignments and its mailing list     *)

SaveDirs == {<<>>, <<"dir">>}

\* days after the due date for the self-grading to be due and to be released
DueDeltas == {1, 7}
ReleasedDeltas == {0, 3}

\* the mailing list of the course with the contacts of the handles hs
CourseList(hs) ==
    <<[name |-> CourseName, id |-> <<"ML", 1>>,
       contacts |-> [k \in 1..Len(hs) |->
                        [id |-> <<"MLRP", k>>, email |-> CornellEmail(hs[k])]]]>>

InitSetup ==
    /\ users = CourseUsers
    /\ \E more \in SUBSET {HWName, WrittenNameOf(1)} :
           assignments = {MatlabName} \cup more
    /\ hw = [due_at |-> DueAt, points_possible |-> 10]
    /\ hwsubs \in {OnTime(11) \o OnTime(12), TaSub \o OnTime(11)}
    /\ sgsubs = <<>>
    /\ survey = NoSurvey
    /\ grader = Report
    /\ loaded = FALSE
    /\ ids = <<>>
    /\ netids = <<>>
    /\ ret = NoCall
    /\ bulk = <<>>
    /\ printed = <<>>
    /\ progress = "none"
    /\ other = NoOther
    /\ files = <<>>
    /\ runs = <<>>
    /\ \E names \in {<<>>, <<SurveyName(1)>>},
          lists \in {<<>>, CourseList(<<H1>>), CourseList(<<H1, H2>>)} :
           qualtrics =
               Listed([NoQualtrics EXCEPT
                          !.surveys = [k \in 1..Len(names) |->
                                          [name |-> names[k], id |-> <<"SV", k>>]],
                          !.lists = lists])

NextSetup ==
    \/ GetCourse
    \/ ListSurveys
    \/ /\ Len(qualtrics.surveys) < MaxSurveys
       /\ \E createAss \in BOOLEAN, dd \in DueDeltas, rd \in ReleasedDeltas :
              SetupPrivateHW(1, createAss, dd, rd)
    \/ \E dd \in DueDeltas, rd \in ReleasedDeltas :
           SetupNewQuizSelfAssessment(1, dd, rd)
    \/ \E saveDir \in SaveDirs : SelfGradingExport(1, saveDir)

SpecSetup == InitSetup /\ [][NextSetup]_vars

----------------------------------------------------------------------------
(* The mailing list of the course against the roster *)

MaxContacts == 3    \* contacts of the mailing list

InitMailing ==
    /\ InitCourse
    /\ hwsubs = TaSub \o OnTime(11) \o OnTime(12)
    /\ sgsubs = <<>>
    /\ survey = NoSurvey
    /\ grader = Report
    /\ \E lists \in {<<>>, CourseList(<<>>)}
                   \cup {CourseList(hs) :
                            hs \in SeqsUpTo({H1, H2, Unknown}, MaxContacts)} :
           qualtrics = [NoQualtrics EXCEPT !.lists = lists]

NextMailing ==
    \/ GetCourse
    \/ GenCourseMailingList
    \/ UpdateCourseMailingList

SpecMailing == InitMailing /\ [][NextMailing]_vars

----------------------------------------------------------------------------
(* The choosers with every argument given or left to the menu *)

InitInterface ==
    /\ InitRest
    /\ \E s1 \in SubsOf(11, {Day}), s2 \in SubsOf(12, {Day}) :
           hwsubs = TaSub \o s1 \o s2
    /\ sgsubs = <<>>
    /\ survey = NoSurvey
    /\ grader = Report

NextInterface ==
    \/ GetCourse
    \/ /\ ret = NoCall
       /\ \E courseNum \in {<<>>, <<CourseNum>>},
             assignmentNum \in {<<>>} \cup {<<a>> : a \in ListedAssignments} :
              \/ InterfaceGetAssignment(courseNum, assignmentNum)
              \/ DueDatesGetAssignment(courseNum, assignmentNum)

SpecInterface == InitInterface /\ [][NextInterface]_vars

----------------------------------------------------------------------------
(* One export of the survey, of the package or of the legacy file, with     *)
(* Qualtrics finishing or failing the export at any moment                  *)

InitExport ==
    /\ InitRest
    /\ hwsubs = TaSub \o OnTime(11) \o OnTime(12)
    /\ sgsubs = <<>>
    /\ grader = Report
    /\ \E rows \in SeqsUpTo(FirstRows, MaxRows) :
           survey = [netidcol |-> TRUE, isec |-> <<FALSE>>, hwscorecol |-> FALSE,
                     rows |-> rows, cells |-> <<>>]

NextExport ==
    \/ \E legacy \in BOOLEAN : ExportStart(1, legacy)
    \/ ExportCheck
    \/ ExportJobStep
    \/ ExportFinish

SpecExport == InitExport /\ [][NextExport]_vars

----------------------------------------------------------------------------
(* Aggregation: every layout of question columns, every answer of a row *)

MaxQuestions == 3   \* question-score columns of a survey

Layouts == {<<>>} \cup SeqsUpTo(BOOLEAN, MaxQuestions)

FullMarks(isec) ==
    [ident |-> H2, q |-> [k \in 1..Len(isec) |-> OrdinalMax], hwscore |-> 10]

InitAgg ==
    /\ InitRest
    /\ hwsubs = TaSub \o OnTime(11) \o OnTime(12)
    /\ sgsubs = <<>>
    /\ grader = Report
    /\ \E isec \in Layouts, col \in BOOLEAN, more \in BOOLEAN :
       \E q \in [1..Len(isec) -> 0..OrdinalMax], total \in {0, 7} :
           /\ \/ \A k \in 1..Len(isec) : isec[k]
              \/ (~col /\ total = 0)
           /\ survey = [netidcol |-> TRUE, isec |-> isec, hwscorecol |-> col,
                        rows |-> <<[ident |-> H1, q |-> q, hwscore |-> total]>>
                                 \o (IF more THEN <<FullMarks(isec)>> ELSE <<>>),
                        cells |-> <<>>]

NextAgg ==
    \/ GetCourse
    \/ /\ ret = NoCall
       /\ \E ec \in {2, 3}, cl \in BOOLEAN :
              SelfGradingImport(ec, cl, <<1, 4>>, 1, FALSE)

SpecAgg == InitAgg /\ [][NextAgg]_vars

----------------------------------------------------------------------------
(* Reconciliation run again and again on the same course: the survey import *)
(* without upload and the New Quiz import                                   *)

InitTwice ==
    /\ InitRest
    /\ \E s1 \in SubsOf(11, {0, Day}), s2 \in {<<>>, OnTime(12)} :
           hwsubs = TaSub \o s1 \o s2
    /\ \E g1 \in GradesOf(11, {2}), g2 \in GradesOf(12, {10}) :
           sgsubs = <<[user_id |-> 13, grade |-> <<5>>]>> \o g1 \o g2
    /\ grader = Report
    /\ \E rows \in SeqsUpTo(LateRows, MaxRows) :
           survey = [netidcol |-> TRUE, isec |-> <<FALSE>>, hwscorecol |-> FALSE,
                     rows |-> rows, cells |-> <<>>]

NextTwice ==
    \/ GetCourse
    \/ \E cl \in BOOLEAN : SelfGradingImport(3, cl, <<1, 4>>, 1, TRUE)
    \/ ImportNewQuizSelfAssessment(<<1, 4>>, 1)

SpecTwice == InitTwice /\ [][NextTwice]_vars

----------------------------------------------------------------------------
(* Run configurations: late penalties in and out of (0,1), a course with    *)
(* and without students                                                     *)

\* a course whose only user is the teaching assistant
StaffOnly == <<CourseUsers[3]>>

ConfigPenalties == {<<-1, 4>>, <<0, 1>>, <<1, 4>>, <<1, 1>>, <<3, 2>>}

InitConfig ==
    /\ users \in {CourseUsers, StaffOnly}
    /\ assignments = {HWName, SAName}
    /\ hw = [due_at |-> DueAt, points_possible |-> 10]
    /\ loaded = FALSE
    /\ ids = <<>>
    /\ netids = <<>>
    /\ ret = NoCall
    /\ bulk = <<>>
    /\ printed = <<>>
    /\ progress = "none"
    /\ other = NoOther
    /\ files = <<>>
    /\ qualtrics = NoQualtrics
    /\ runs = <<>>
    /\ \E s1 \in SubsOf(11, {Day \div 2}) :
           hwsubs = TaSub \o s1 \o OnTime(12)
    /\ \E g1 \in GradesOf(11, {2}) :
           sgsubs = g1 \o <<[user_id |-> 12, grade |-> <<10>>]>>
    /\ grader = Report
    /\ \E rows \in SeqsUpTo(LateRows, MaxRows) :
           survey = [netidcol |-> TRUE, isec |-> <<FALSE>>, hwscorecol |-> FALSE,
                     rows |-> rows, cells |-> <<>>]

NextConfig ==
    \/ GetCourse
    \/ /\ ret = NoCall
       /\ \E cl \in BOOLEAN, lp \in ConfigPenalties :
              SelfGradingImport(3, cl, lp, 1, FALSE)
    \/ /\ ret = NoCall
       /\ \E lp \in ConfigPenalties : LinearTimePenalty(lp, 1)
    \/ /\ ret = NoCall
       /\ \E lp \in ConfigPenalties : ImportNewQuizSelfAssessment(lp, 1)

SpecConfig == InitConfig /\ [][NextConfig]_vars

----------------------------------------------------------------------------
(* Malformed survey exports: a cell that holds text or nothing, an export   *)
(* without any score column                                                 *)

MalformedLayouts == {<<>>, <<FALSE>>, <<FALSE, FALSE>>, <<FALSE, TRUE>>}

\* no malformed cell, or one cell of column col (0 is "HW Score") of one row
CellsOf(nrows, ncols, col) ==
    {<<>>} \cup {[c \in {<<r, k>>} |-> kind] :
                    r \in 1..nrows, k \in (IF col THEN 0 ELSE 1)..ncols,
                    kind \in {"text", "blank"}}

InitMalformed ==
    /\ InitRest
    /\ hwsubs = TaSub \o OnTime(11) \o OnTime(12)
    /\ sgsubs = <<>>
    /\ grader = Report
    /\ \E isec \in MalformedLayouts, col \in BOOLEAN :
       \E who \in SeqsUpTo({H1, H2}, MaxRows) :
       \E cells \in CellsOf(Len(who), Len(isec), col) :
           survey = [netidcol |-> TRUE, isec |-> isec, hwscorecol |-> col,
                     rows |-> [j \in 1..Len(who) |->
                                  [ident |-> who[j],
                                   q |-> [k \in 1..Len(isec) |-> OrdinalMax],
                                   hwscore |-> 7]],
                     cells |-> cells]

NextMalformed ==
    \/ GetCourse
    \/ /\ ret = NoCall
       /\ \E cl \in BOOLEAN : SelfGradingImport(3, cl, <<1, 4>>, 1, FALSE)

SpecMalformed == InitMalformed /\ [][NextMalformed]_vars

----------------------------------------------------------------------------
(* Properties of the late policies *)

IdOf(n) == ids[FirstPos(n, netids)]

\* the submission records Canvas holds for the roster student with netid n
RecordsOf(n) ==
    {hwsubs[k] : k \in {i \in 1..Len(hwsubs) :
                            InArr(n, netids) /\ hwsubs[i].user_id = IdOf(n)}}

\* seconds past the due date of a submission that has a submission time
Lateness(t) == t.submitted_at[1] - hw.due_at

\* selfGradingImport returned, and it checked lateness
SGChecked ==
    ret.op = "selfGradingImport" /\ ret.raised = "none" /\ ret.args.checkLate

Agg(j) == Aggregated(j, hw.points_possible, ret.args.ecscore)

FullPenalty == RMul(Num(hw.points_possible), ret.args.latePenalty)

Posted(n) == bulk[1].grade_data[DecStr(IdOf(n))].posted_grade

C2_OnTimeNeverPenalized ==
    /\ SGChecked =>
           \A j \in 1..Len(ret.netids) : \A t \in RecordsOf(ret.netids[j]) :
               (t.submitted_at # <<>> /\ Lateness(t) <= Grace) =>
                   ret.scores[j] = Agg(j)
    /\ ret.op = "linearTimePenalty" =>
           \A n \in DOMAIN ret.lates : \A t \in RecordsOf(n) :
               (t.submitted_at # <<>> /\ Lateness(t) <= 0) =>
                   ret.lates[n] = Num(0)

\* the fixed-policy half of C2 alone
C2_FixedOnTime ==
    SGChecked =>
        \A j \in 1..Len(ret.netids) : \A t \in RecordsOf(ret.netids[j]) :
            (t.submitted_at # <<>> /\ Lateness(t) <= Grace) =>
                ret.scores[j] = Agg(j)

Max0(r) == IF RLt(r, Num(0)) THEN Num(0) ELSE r

LinearOf(s) ==
    RMul(FullPenalty, Rat(s, ret.args.maxDaysLate * Day))

\* the grade Canvas holds for the self-assessment of the student with netid n
GradeOf(n) ==
    Num((CHOOSE sub \in {sgsubs[k] : k \in 1..Len(sgsubs)} :
            sub.user_id = IdOf(n) /\ sub.grade # <<>>).grade[1])

InWindow(t) ==
    /\ t.submitted_at # <<>>
    /\ t.late
    /\ Lateness(t) >= 0
    /\ Lateness(t) <= ret.args.maxDaysLate * Day

\* C5: linear policy: a submission flagged late, d days late with
\* 0 <= d <= maxDaysLate, has penalty pointsPossible * latePenalty * d /
\* maxDaysLate (0 at the due instant, half the fraction at maxDaysLate / 2,
\* the full fraction at maxDaysLate), and importNewQuizSelfAssessment uploads
\* the self-assessed grade minus that penalty.
C5_LinearPenalty ==
    /\ ret.op = "linearTimePenalty" =>
           \A n \in DOMAIN ret.lates : \A t \in RecordsOf(n) :
               InWindow(t) =>
                   /\ ret.lates[n] = LinearOf(Lateness(t))
                   /\ Lateness(t) = 0 => ret.lates[n] = Num(0)
                   /\ 2 * Lateness(t) = ret.args.maxDaysLate * Day =>
                          ret.lates[n] = RMul(FullPenalty, Rat(1, 2))
                   /\ Lateness(t) = ret.args.maxDaysLate * Day =>
                          ret.lates[n] = FullPenalty
    /\ (ret.op = "importNewQuizSelfAssessment" /\ ret.raised = "none") =>
           \A k \in 1..Len(ret.netids) : \A t \in RecordsOf(ret.netids[k]) :
               InWindow(t) =>
                   Posted(ret.netids[k]) =
                       FormatF(RSub(GradeOf(ret.netids[k]), LinearOf(Lateness(t))))

C5_Witness ==
    /\ ret.op = "importNewQuizSelfAssessment"
    /\ ret.raised = "none"
    /\ \E k \in 1..Len(ret.netids) : \E t \in RecordsOf(ret.netids[k]) :
           /\ InWindow(t)
           /\ 2 * Lateness(t) = ret.args.maxDaysLate * Day
           /\ GradeOf(ret.netids[k]) = Num(10)
           /\ ret.scores[k] = RSub(Num(10), RMul(FullPenalty, Rat(1, 2)))
           /\ Posted(ret.netids[k]) # FormatF(Num(10))

\* C6 as claimed: linear policy: beyond maxDaysLate days the penalty is
\* clamped to pointsPossible * latePenalty, so no penalty exceeds it.
C6_PenaltyAtMostFraction ==
    ret.op = "linearTimePenalty" =>
        \A n \in DOMAIN ret.lates : RLe(ret.lates[n], FullPenalty)

\* C6 amended: linear policy: for a submission flagged late with lateness
\* greater than maxDaysLate days the penalty is all of pointsPossible, so no
\* penalty exceeds pointsPossible, and none exceeds pointsPossible *
\* latePenalty up to maxDaysLate days.
C6_FullScoreBeyondMaxDays ==
    ret.op = "linearTimePenalty" =>
        \A n \in DOMAIN ret.lates :
            /\ RLe(ret.lates[n], Num(hw.points_possible))
            /\ \A t \in RecordsOf(n) :
                   /\ (t.late /\ Lateness(t) > ret.args.maxDaysLate * Day) =>
                          ret.lates[n] = Num(hw.points_possible)
                   /\ Abs(Lateness(t)) <= ret.args.maxDaysLate * Day =>
                          RLe(ret.lates[n], FullPenalty)

C6_Witness ==
    /\ ret.op = "linearTimePenalty"
    /\ \E n \in DOMAIN ret.lates : \E t \in RecordsOf(n) :
           /\ t.late
           /\ Lateness(t) = ret.args.maxDaysLate * Day + 1
           /\ ret.lates[n] = Num(hw.points_possible)

\* C7: no import path produces a negative score: every score that
\* selfGradingImport, importNewQuizSelfAssessment and matlabImport return or
\* upload is >= 0.
C7_NoNegativeScore ==
    (ret.op \in {"selfGradingImport", "importNewQuizSelfAssessment", "matlabImport"}
        /\ ret.raised = "none") =>
        /\ \A j \in 1..Len(ret.scores) : RLe(Num(0), ret.scores[j])
        /\ \A b \in 1..Len(bulk) : \A key \in DOMAIN bulk[b].grade_data :
               Head(bulk[b].grade_data[key].posted_grade) # "-"

----------------------------------------------------------------------------
(* Properties of identity resolution, the upload and the aggregation *)

Roster == {netids[k] : k \in 1..Len(netids)}

SGReturned == ret.op = "selfGradingImport" /\ ret.raised = "none"

\* h alone, or h@domain with the domain in any letter case
ExactVariants(h) ==
    {h} \cup {h \o <<"@">> \o d : d \in CaseVariants(Domain)}

LastPos(n, nids) ==
    CHOOSE k \in 1..Len(nids) :
        nids[k] = n /\ \A m \in (k + 1)..Len(nids) : nids[m] # n

\* C9: uploadScores(ass, netids, scores): every input netid of the roster has
\* an entry in the payload, keyed by the student's Canvas id and holding the
\* score paired with the netid (of its last occurrence, when it occurs
\* twice); the payload has no other keys; every input netid that is not in
\* the roster is named in the unmatched report and in no payload entry; and
\* the payload is sent whether or not a netid is unmatched.
C9_UploadMatchedOnly ==
    ret.op = "uploadScores" =>
        LET nids   == ret.args.netids
            scores == ret.args.scores
            given  == {nids[k] : k \in 1..Len(nids)} \ {NaNId}
        IN  /\ Len(bulk) = 1
            /\ bulk[1].ass = ret.args.ass
            /\ DOMAIN bulk[1].grade_data =
                   {DecStr(IdOf(n)) : n \in given \cap Roster}
            /\ \A n \in given \cap Roster :
                   Posted(n) = FormatF(scores[LastPos(n, nids)])
            /\ \A n \in given \ Roster :
                   /\ Len(printed) = 1
                   /\ InArr(n, printed[1])
            /\ \A r \in 1..Len(printed) : \A k \in 1..Len(printed[r]) :
                   printed[r][k] \in given \ Roster

C9_Witness ==
    /\ ret.op = "uploadScores"
    /\ ret.args.netids = <<Unknown, H2>>
    /\ ret.args.scores = <<Num(10), Rat(5, 6)>>
    /\ printed = <<<<Unknown>>>>
    /\ Len(bulk) = 1
    /\ DOMAIN bulk[1].grade_data = {<<"1", "2">>}
    /\ bulk[1].grade_data[<<"1", "2">>].posted_grade =
           <<"0", ".", "8", "3", "3", "3", "3", "3">>

\* the answers of q in the columns that are (ec) or are not extra credit
RECURSIVE Answers(_, _, _)
Answers(q, isec, ec) ==
    IF q = <<>> THEN <<>>
    ELSE (IF Head(isec) = ec THEN <<Head(q)>> ELSE <<>>)
             \o Answers(Tail(q), Tail(isec), ec)

\* points * sum(answers) / 3 / len(answers)
Share(points, answers) == Rat(points * SumSeq(answers), 3 * Len(answers))

C10_WitnessExtra ==
    /\ SGReturned
    /\ survey.isec = <<FALSE, TRUE, FALSE>>
    /\ survey.rows[1].q = <<3, 1, 2>>
    /\ Len(survey.rows) = 1
    /\ ret.args.ecscore = 3
    /\ ret.scores[1] = Rat(28, 3)
    /\ Posted(H1) = <<"9", ".", "3", "3", "3", "3", "3", "3">>

\* C11: a survey with no base (non-extra-credit) question column, with or
\* without extra-credit columns, and with a "HW Score" column: the aggregated
\* score of every row is the value of its "HW Score" cell.
C11_HolisticWhenNoBase ==
    (ret.op = "selfGradingImport" /\ QuesCols(FALSE) = {} /\ survey.hwscorecol) =>
        /\ ret.raised = "none"
        /\ \A j \in 1..Len(survey.rows) :
               ret.scores[j] = Num(survey.rows[j].hwscore)

\* the part of C11 for a survey with no question column at all
C11_HolisticWhenNoQuestions ==
    (ret.op = "selfGradingImport" /\ survey.isec = <<>> /\ survey.hwscorecol) =>
        /\ ret.raised = "none"
        /\ \A j \in 1..Len(survey.rows) :
               /\ ret.scores[j] = Num(survey.rows[j].hwscore)
               /\ Posted(ret.netids[j]) = FormatF(Num(survey.rows[j].hwscore))

\* what the code does with extra-credit columns only: every score is nan
C11_NaNWhenOnlyExtraCredit ==
    (ret.op = "selfGradingImport" /\ QuesCols(FALSE) = {} /\ survey.isec # <<>>) =>
        /\ ret.raised = "none"
        /\ \A j \in 1..Len(survey.rows) :
               /\ IsNaN(ret.scores[j])
               /\ Posted(ret.netids[j]) = <<"n", "a", "n">>

\* a respondent of the roster for whom Canvas lists no submission record
NoRecord(j) == QNetids[j] \in Roster /\ RecordsOf(QNetids[j]) = {}

\* C12: with checkLate, a respondent of the roster for whom the submission
\* list holds no record keeps the aggregated score, and the run goes on: it
\* returns, with a score for every respondent.
C12_MissingRecordUnpenalized ==
    (ret.op = "selfGradingImport" /\ ret.args.checkLate) =>
        \A j \in 1..Len(QNetids) :
            NoRecord(j) =>
                /\ ret.raised = "none"
                /\ Len(ret.scores) = Len(QNetids)
                /\ ret.scores[j] = Agg(j)

\* what the code does for C12: the run stops with an IndexError and neither
\* returns nor uploads a score
C12_MissingRecordAborts ==
    (ret.op = "selfGradingImport" /\ ret.args.checkLate) =>
        ((\E j \in 1..Len(QNetids) : NoRecord(j)) =>
            /\ ret.raised = "IndexError"
            /\ ret.scores = <<>>
            /\ bulk = <<>>)

C13_WitnessNoSubmission ==
    /\ ret.op = "selfGradingImport"
    /\ ~ret.args.checkLate
    /\ \E j \in 1..Len(ret.netids) :
           /\ NoRecord(j)
           /\ ret.scores[j] = Num(10)
    /\ \E j \in 1..Len(ret.netids) : \E t \in RecordsOf(ret.netids[j]) :
           /\ t.submitted_at = <<>>
           /\ ret.scores[j] = Num(10)

\* a step that runs again the reconciliation that ran last, with the same
\* arguments on the same roster, submissions and raw scores
SameRunAgain ==
    /\ ret.op \in {"selfGradingImport", "importNewQuizSelfAssessment"}
    /\ ret'.op = ret.op
    /\ ret'.args = ret.args
    /\ UNCHANGED <<world, loaded, ids, netids, aside>>

\* the elements of a list
Elems(l) == {l[k] : k \in 1..Len(l)}

\* C14: a reconciliation run twice on identical inputs gives identical
\* results: the same netids and scores, the same unmatched and missing lists
\* with the same elements in the same order.
C14_SameResultTwice ==
    [][SameRunAgain => (ret' = ret /\ bulk' = bulk /\ printed' = printed)]_vars

\* what the code gives for C14: everything is identical but the order of
\* submittedAssignmentNoScore
C14_SameUpToOrder ==
    [][SameRunAgain =>
          /\ bulk' = bulk
          /\ printed' = printed
          /\ ret'.raised = ret.raised
          /\ (ret.op = "selfGradingImport" => ret' = ret)
          /\ (ret.op = "importNewQuizSelfAssessment" /\ ret.raised = "none") =>
                 /\ ret'.netids = ret.netids
                 /\ ret'.scores = ret.scores
                 /\ ret'.submittedScoreNoAssignment = ret.submittedScoreNoAssignment
                 /\ Elems(ret'.submittedAssignmentNoScore) =
                        Elems(ret.submittedAssignmentNoScore)]_vars

\* Canvas holds a graded self-assessment of the roster student with netid n
HasGrade(n) ==
    \E k \in 1..Len(sgsubs) :
        sgsubs[k].user_id = IdOf(n) /\ sgsubs[k].grade # <<>>

\* Canvas holds a homework submission of the roster student with netid n
Submitted(n) == \E t \in RecordsOf(n) : t.submitted_at # <<>>

NQReturned == ret.op = "importNewQuizSelfAssessment" /\ ret.raised = "none"

\* C15 as claimed: the list of students missing a raw score that
\* importNewQuizSelfAssessment reports (submittedAssignmentNoScore) is the set
\* of roster handles with no matched raw score.
C15_MissingIsRosterWithoutScore ==
    NQReturned =>
        Elems(ret.submittedAssignmentNoScore) = {n \in Roster : ~HasGrade(n)}

\* C15 amended: submittedAssignmentNoScore lists, once each, the roster
\* handles that submitted the homework and have no graded self-assessment; a
\* roster student who submitted neither is not listed.
C15_MissingIsSubmittedWithoutScore ==
    NQReturned =>
        /\ Elems(ret.submittedAssignmentNoScore) =
               {n \in Roster : Submitted(n) /\ ~HasGrade(n)}
        /\ Len(ret.submittedAssignmentNoScore) =
               Cardinality(Elems(ret.submittedAssignmentNoScore))

C15_Witness ==
    /\ NQReturned
    /\ Submitted(H1) /\ ~HasGrade(H1)
    /\ ~Submitted(H2) /\ ~HasGrade(H2)
    /\ ret.submittedAssignmentNoScore = <<H1>>

\* the fraction lp lies in the open interval (0, 1)
InUnitInterval(lp) == RLt(Num(0), lp) /\ RLt(lp, Num(1))

\* C16: a reconciliation run whose latePenalty is outside (0,1), or whose
\* roster is empty, fails as a configuration error before any score is
\* computed or uploaded.
C16_InvalidConfigurationFails ==
    (/\ ret.op \in {"selfGradingImport", "linearTimePenalty",
                    "importNewQuizSelfAssessment"}
     /\ (~InUnitInterval(ret.args.latePenalty) \/ Roster = {})) =>
        /\ ret.raised # "none"
        /\ bulk = <<>>

\* what the code does for C16: neither the fraction nor the roster is looked
\* at, the run returns and sends its upload
C16_InvalidConfigurationRuns ==
    (/\ ret.op \in {"selfGradingImport", "importNewQuizSelfAssessment"}
     /\ (~InUnitInterval(ret.args.latePenalty) \/ Roster = {})
     /\ ~(/\ ret.op = "selfGradingImport"
          /\ ret.args.checkLate
          /\ \E j \in 1..Len(QNetids) : NoRecord(j))) =>
        /\ ret.raised = "none"
        /\ Len(bulk) = 1

\* a negative latePenalty raises the score of a late submission above the
\* aggregated score
C16_LateBonus ==
    /\ SGChecked
    /\ RLt(ret.args.latePenalty, Num(0))
    /\ \E j \in 1..Len(ret.netids) : RLt(Agg(j), ret.scores[j])

\* row j holds text that is no number in one of the score columns
TextRow(j) ==
    \E c \in DOMAIN survey.cells :
        c[1] = j /\ c[2] \in ScoreCols /\ survey.cells[c] = "text"

\* the export has neither a question-score column nor a "HW Score" column
NoScoreColumn == survey.isec = <<>> /\ ~survey.hwscorecol

C17_WitnessNoColumn ==
    /\ ret.op = "selfGradingImport"
    /\ NoScoreColumn
    /\ survey.rows # <<>>
    /\ ret.raised = "AssertionError"
    /\ bulk = <<>>

\* C17 for an empty cell
C17_WitnessBlank ==
    /\ SGReturned
    /\ Len(survey.rows) = 2
    /\ survey.rows[1].ident = H1
    /\ survey.rows[2].ident = H2
    /\ HasBlank(1)
    /\ Posted(H1) = <<"n", "a", "n">>
    /\ Posted(H2) = FormatF(Num(10))

----------------------------------------------------------------------------
(* Properties of the upload of a reconciliation run *)

Reconciled == ret.op \in {"selfGradingImport", "importNewQuizSelfAssessment"}

\* C18 as claimed: no grade is sent to Canvas until the final scores have
\* been computed and returned to the caller: in a step that sends grades the
\* run that computed them had already returned.
C18_NoUploadBeforeReturn ==
    [][(bulk' # bulk /\ bulk' # <<>> /\ Reconciled')
          => (Reconciled /\ ret.raised = "none" /\ ret' = ret)]_vars

\* C18 amended: the upload of a run is one bulk request, made inside the call
\* after every final score has been computed: it holds the final score of
\* every respondent of the roster; a run that fails midway sends nothing; and
\* a run that returns has sent its upload before it returned.
C18_UploadWholeOrNothing ==
    Reconciled =>
        /\ Len(bulk) <= 1
        /\ ret.raised # "none" => bulk = <<>>
        /\ (ret.raised = "none"
               /\ (ret.op = "selfGradingImport" => ~ret.args.noUpload)) =>
               /\ Len(bulk) = 1
               /\ DOMAIN bulk[1].grade_data =
                      {DecStr(IdOf(n)) : n \in Elems(ret.netids) \cap Roster}
               /\ \A n \in Elems(ret.netids) \cap Roster :
                      Posted(n) = FormatF(ret.scores[LastPos(n, ret.netids)])

\* a run that fails at its second respondent, the first one already handled
C18_Witness ==
    /\ ret.op = "selfGradingImport"
    /\ ret.raised = "IndexError"
    /\ Len(QNetids) = 2
    /\ QNetids[1] \in Roster
    /\ \E t \in RecordsOf(QNetids[1]) : t.submitted_at # <<>>
    /\ NoRecord(2)
    /\ bulk = <<>>

C18_WitnessSent ==
    /\ NQReturned
    /\ Len(ret.netids) = 2
    /\ Len(bulk) = 1
    /\ Cardinality(DOMAIN bulk[1].grade_data) = 2

\* uploadScores has sent its update and waits in waitForSubmit
Waiting == runs # <<>> /\ runs[1].op = "uploadScores" /\ runs[1].pc # "done"

\* waitForSubmit, and with it uploadScores, has returned
Returned == runs # <<>> /\ runs[1].op = "uploadScores" /\ runs[1].pc = "done"

\* C19: the wait of the upload ends once the job of the bulk update has
\* ended: waitForSubmit polls every 0.5 s and returns whenever the job is
\* completed or failed.
C19_WaitEndsWithJob ==
    (Waiting /\ progress \in {"completed", "failed"}) ~> Returned

\* the part of C19 for a job that is completed
C19_WaitEndsWhenCompleted ==
    (Waiting /\ progress = "completed") ~> Returned

\* what the code does for C19: it returns on "completed" alone, and the sleep
\* between two polls is always 0.5 s
C19_ReturnsOnlyWhenCompleted ==
    /\ Returned => progress = "completed"
    /\ \A k \in 1..Len(runs) :
           runs[k].op = "uploadScores" =>
               \A i \in 1..Len(runs[k].slept) : runs[k].slept[i] = PollInterval

\* once the job has failed the wait never ends
C19_FailedNeverReturns ==
    [][(Waiting /\ progress = "failed") => (Waiting' /\ progress' = "failed")]_vars

----------------------------------------------------------------------------
(* Properties of calls that run side by side *)

\* what the call for homework n gives when it runs alone
Alone(n) ==
    SelfGradedOf(ResponsesOf(n), HwNameOf(n), CanvasOf(n).hw, CanvasOf(n).hwsubs,
                 runs[n].args.ecscore, runs[n].args.checkLate,
                 runs[n].args.latePenalty, runs[n].args.maxDaysLate)

\* the update the call for homework n sends when it runs alone
AloneUpdate(n) ==
    UploadBulk(HwNameOf(n), QNetidsOf(ResponsesOf(n)), Alone(n).scores)[1]

----------------------------------------------------------------------------
(* Whitelisted submissions *)

\* the rows of the grader report of the student with netid n
ReportRows(n) == {k \in 1..Len(grader) : SplitAt(grader[k].email) = n}

\* the matlabImport score of n without any lateness adjustment
Unadjusted(n) ==
    LET Sum[S \in SUBSET ReportRows(n)] ==
            IF S = {} THEN Num(0)
            ELSE LET k == CHOOSE x \in S : TRUE
                 IN  RAdd(Rat(grader[k].passed, MaxTests(grader, grader[k].prob)),
                          Sum[S \ {k}])
    IN  RMul(Sum[ReportRows(n)],
             Rat(10, Cardinality({grader[k].prob : k \in 1..Len(grader)})))

\* C21: a whitelisted submission (late flag false in Canvas, 'N' in the
\* grader report) receives no lateness adjustment, however long after the
\* due date it was made: selfGradingImport ends with the aggregated score,
\* matlabImport with the unadjusted score.
C21_WhitelistedKeepsScore ==
    /\ SGChecked =>
           \A j \in 1..Len(ret.netids) : \A t \in RecordsOf(ret.netids[j]) :
               (t.submitted_at # <<>> /\ ~t.late) => ret.scores[j] = Agg(j)
    /\ (ret.op = "matlabImport" /\ ret.raised = "none") =>
           \A j \in 1..Len(ret.netids) :
               (\A k \in ReportRows(ret.netids[j]) : grader[k].late = "N") =>
                   ret.scores[j] = Unadjusted(ret.netids[j])

\* the part of C21 that holds: a whitelisted submission no later than
\* due + maxDaysLate days + 5 minutes keeps the aggregated score
C21_WhitelistedWithinCutoff ==
    SGChecked =>
        \A j \in 1..Len(ret.netids) : \A t \in RecordsOf(ret.netids[j]) :
            (/\ t.submitted_at # <<>>
             /\ ~t.late
             /\ Lateness(t) <= ret.args.maxDaysLate * Day + Grace) =>
                ret.scores[j] = Agg(j)

----------------------------------------------------------------------------
(* Survey names *)

\* C22: createSurvey enforces the uniqueness of survey names: no two surveys
\* of the account have the same name, after any sequence of createSurvey
\* calls on one client.
C22_SurveyNamesUnique ==
    \A i, j \in 1..Len(qualtrics.surveys) :
        qualtrics.surveys[i].name = qualtrics.surveys[j].name => i = j

\* the part of C22 that holds: a name the client saw when it last listed the
\* surveys is refused, and a refused call creates nothing
C22_ListedNameRefused ==
    [][\A name \in SurveyTitles :
          (CreateSurvey(name) /\ InArr(name, qualtrics.surveyNames)) =>
              /\ ret'.raised = "AssertionError"
              /\ qualtrics'.surveys = qualtrics.surveys]_vars

----------------------------------------------------------------------------
(* The export of the survey and the survey setupPrivateHW creates *)

\* the file the export of selfGradingImport(n, saveDir=d) is to be found at
ExportedTo(n, saveDir) ==
    IF saveDir = <<>> THEN SurveyFile(n)
    ELSE <<saveDir[1], SurveyName(n), ".csv">>

\* C23: selfGradingImport(assignmentNum, saveDir=d) exports the survey into d,
\* and into the temporary directory when saveDir is None: once the homework
\* and the survey are found the export step succeeds and leaves the file.
C23_ExportSucceeds ==
    (ret.op = "selfGradingImport" /\ ret.surveyId # <<>>) =>
        /\ ret.raised = "none"
        /\ ExportedTo(ret.args.assignmentNum, ret.args.saveDir) \in DOMAIN files

\* what happens instead: the export step ends every call that found its
\* homework and its survey with a TypeError, for either saveDir
C23_ExportRaises ==
    (ret.op = "selfGradingImport" /\ ret.surveyId # <<>>) =>
        ret.raised = "TypeError" /\ files = <<>>

\* C24: setupPrivateHW(n) followed by selfGradingImport(n) on the same
\* objects: the import finds the survey the setup created.
C24_ImportFindsCreatedSurvey ==
    [][\A d \in SaveDirs :
          (/\ ret.op = "setupPrivateHW"
           /\ ret.raised = "none"
           /\ HwNameOf(1) \in assignments
           /\ SelfGradingExport(1, d)) =>
              ret'.surveyId = ret.surveyId]_vars

\* what happens instead: the import that follows a setup never gets the id of
\* the survey the setup created
C24_ImportMissesCreatedSurvey ==
    [][\A d \in SaveDirs :
          (/\ ret.op = "setupPrivateHW"
           /\ ret.raised = "none"
           /\ SelfGradingExport(1, d)) =>
              ret'.surveyId # ret.surveyId]_vars

----------------------------------------------------------------------------
(* The dates of the self-assessment quiz *)

\* a setup call that created its self-grading assignment or quiz
Created(op) == ret.op = op /\ ret.raised = "none" /\ ret.created # <<>>

\* C25: setupNewQuizSelfAssessment creates the quiz with unlock_at = due date
\* of the homework + selfGradeReleasedDelta days and due_at = due date of the
\* homework + selfGradeDueDelta days, the rule of setupPrivateHW.
C25_QuizDatesFromDueDate ==
    Created("setupNewQuizSelfAssessment") =>
        /\ ret.created[1].unlock_at =
               hw.due_at + ret.args.selfGradeReleasedDelta * Day
        /\ ret.created[1].due_at = hw.due_at + ret.args.selfGradeDueDelta * Day

\* the rule of setupPrivateHW, which C25 refers to
C25_PrivateHWDatesFromDueDate ==
    Created("setupPrivateHW") =>
        /\ ret.created[1].unlock_at =
               hw.due_at + ret.args.selfGradeReleasedDelta * Day
        /\ ret.created[1].due_at = hw.due_at + ret.args.selfGradeDueDelta * Day

\* what the quiz gets instead: due selfGradeDueDelta days after its release
C25_QuizDueAfterRelease ==
    Created("setupNewQuizSelfAssessment") =>
        /\ ret.created[1].unlock_at =
               hw.due_at + ret.args.selfGradeReleasedDelta * Day
        /\ ret.created[1].due_at =
               hw.due_at + (ret.args.selfGradeReleasedDelta
                            + ret.args.selfGradeDueDelta) * Day


\* setupPrivateHW created its self-grading assignment
C25_WitnessPrivateHW == Created("setupPrivateHW") /\ ret.linked # <<>>

----------------------------------------------------------------------------
(* The mailing list after updateCourseMailingList *)

\* the emails of the contacts of the mailing list of the course
ListEmails ==
    LET cs == ContactsOf(qualtrics, GetMailingListId(qualtrics, CourseName)[1])
    IN  {cs[k].email : k \in 1..Len(cs)}

\* updateCourseMailingList was called on a course that has its mailing list
Updated ==
    /\ ret.op = "updateCourseMailingList"
    /\ GetMailingListId(qualtrics, CourseName) # <<>>

\* C26: after updateCourseMailingList the emails of the contacts of the
\* mailing list of the course are the emails netid@cornell.edu of the roster.
C26_ListMatchesRoster ==
    Updated =>
        /\ ret.raised = "none"
        /\ ListEmails = {CornellEmail(n) : n \in Roster}

\* what happens instead: the call ends with a TypeError and changes no list
C26_UpdateRaises ==
    [][UpdateCourseMailingList =>
          /\ qualtrics' = qualtrics
          /\ ret'.raised \in {"TypeError", "AssertionError"}]_vars

----------------------------------------------------------------------------
(* The assignment choosers *)

\* the chooser op returned the assignment asked for, with a menu for exactly
\* the arguments left unset
ChoosesAsAsked(op) ==
    ret.op = op =>
        /\ ret.raised = "none"
        /\ ret.args.assignmentNum # <<>> => ret.value = ret.args.assignmentNum
        /\ InArr("Choose course", ret.menus) <=> ret.args.courseNum = <<>>
        /\ InArr("Choose assignment", ret.menus) <=> ret.args.assignmentNum = <<>>

\* C27: cornellInterface.getAssignment(c, courseNum, assignmentNum) with both
\* arguments given loads the course and returns the assignment of that number
\* without a menu; a menu is shown only for an argument left unset.
C27_InterfaceChoosesAsAsked == ChoosesAsAsked("cornellInterface.getAssignment")

\* the chooser of dueDatesFromCSV does what C27 states
C27_DueDatesChoosesAsAsked == ChoosesAsAsked("dueDatesFromCSV.getAssignment")

\* what happens instead: cornellInterface.getAssignment returns an assignment
\* exactly when assignmentNum is left unset
C27_InterfaceNeedsMenu ==
    ret.op = "cornellInterface.getAssignment" =>
        (ret.raised = "none" <=> ret.args.assignmentNum = <<>>)

----------------------------------------------------------------------------
(* The export of a survey *)

\* an export call under way or ended
Exporting == runs # <<>> /\ runs[1].op = "exportSurvey"

\* C28: exportSurvey: the loop that checks the progress ends only with the
\* status complete or failed; on failed an exception is raised and no
\* download is requested; on complete exactly one download is requested,
\* with the fileId of the last progress response.
C28_ExportLoop ==
    Exporting =>
        /\ runs[1].pc \in {"checked", "done"} =>
               runs[1].progressStatus \in {"complete", "failed"}
        /\ Len(runs[1].downloads) <= 1
        /\ (runs[1].pc = "done" /\ runs[1].progressStatus = "failed") =>
               /\ runs[1].raised # "none"
               /\ runs[1].downloads = <<>>
               /\ files = <<>>
        /\ (runs[1].pc = "done" /\ runs[1].progressStatus = "complete") =>
               /\ runs[1].raised = "none"
               /\ runs[1].downloads = runs[1].checks[1].fileId
               /\ runs[1].downloads =
                      qualtrics.exports[runs[1].progressId].fileId

\* a completed export was downloaded once and its responses are on disk
C28_Witness ==
    /\ Exporting
    /\ runs[1].pc = "done"
    /\ runs[1].progressStatus = "complete"
    /\ Len(runs[1].downloads) = 1
    /\ SurveyFile(1) \in DOMAIN files
    /\ files[SurveyFile(1)].rows # <<>>

\* a failed export ended with the exception
C28_WitnessFailed ==
    /\ Exporting
    /\ runs[1].pc = "done"
    /\ runs[1].progressStatus = "failed"
    /\ runs[1].raised = "Exception"

----------------------------------------------------------------------------
(* The groups of importNewQuizSelfAssessment *)

\* the update sent holds a grade for the roster student with netid n
Uploaded(n) ==
    /\ bulk # <<>>
    /\ DecStr(IdOf(n)) \in DOMAIN bulk[1].grade_data

\* C29: importNewQuizSelfAssessment: a roster student with a graded
\* self-assessment is uploaded when Canvas holds a homework submission with a
\* submission time for them, and is in submittedScoreNoAssignment otherwise,
\* never both; a user outside the roster or with an ungraded self-assessment
\* is in neither; submittedAssignmentNoScore is the roster students with a
\* submission time who were not uploaded.
C29_Groups ==
    NQReturned =>
        /\ \A n \in Roster :
              /\ (HasGrade(n) /\ Submitted(n)) =>
                     /\ Uploaded(n)
                     /\ ~InArr(n, ret.submittedScoreNoAssignment)
              /\ (HasGrade(n) /\ ~Submitted(n)) =>
                     /\ ~Uploaded(n)
                     /\ InArr(n, ret.submittedScoreNoAssignment)
              /\ ~HasGrade(n) =>
                     /\ ~Uploaded(n)
                     /\ ~InArr(n, ret.submittedScoreNoAssignment)
        /\ Elems(ret.submittedScoreNoAssignment) \subseteq Roster
        /\ bulk # <<>> =>
               DOMAIN bulk[1].grade_data \subseteq {DecStr(IdOf(n)) : n \in Roster}
        /\ Elems(ret.submittedAssignmentNoScore) =
               {n \in Roster : Submitted(n) /\ ~Uploaded(n)}

\* one graded student with a submission, one graded student without, and the
\* graded self-assessment of the teaching assistant
C29_Witness ==
    /\ NQReturned
    /\ HasGrade(H1) /\ Submitted(H1) /\ Uploaded(H1)
    /\ HasGrade(H2) /\ ~Submitted(H2)
    /\ ret.submittedScoreNoAssignment = <<H2>>
    /\ \E k \in 1..Len(sgsubs) :
           sgsubs[k].grade # <<>> /\ ~InArr(sgsubs[k].user_id, ids)

====
